---- MODULE Spec2Model ----
(***************************************************************************)
(* Continuation resolver of the journeys backend: the derivation,          *)
(* validation and repair of a subjourney's continue_step_id                *)
(* (backend/app/routers/journeys.py, phases.py, steps.py).                 *)
(*                                                                         *)
(* Rows are records.  Ids are positive integers (a uuid4 is a fresh id),   *)
(* NULL is Python's None / SQL NULL and EMPTY is the empty string, the     *)
(* other falsy value an Optional[str] can hold.                            *)
(***************************************************************************)
EXTENDS Integers, Sequences, FiniteSets, TLC

VARIABLES
    journeys,        \* table "journeys": rows in the store's natural row order
    phases,          \* table "phases"
    steps,           \* table "steps"
    uuid,            \* how many ids uuid4() has issued, per table
    response,        \* what the last handler returned to its caller
    subjourney,      \* argument of the resolver function under call
    parent_journey,  \* argument: the parent journey row
    parent_phases,   \* argument: list of phase rows
    parent_steps,    \* argument: list of step rows
    result,          \* what the resolver function returned
    updates,         \* journeys.update(...) statements the call executed
    requests         \* requests in flight: where each is in its handler, what it read

vars == <<journeys, phases, steps, uuid, response,
          subjourney, parent_journey, parent_phases, parent_steps, result, updates,
          requests>>

storeVars == <<journeys, phases, steps, uuid, response>>
callVars == <<subjourney, parent_journey, parent_phases, parent_steps, result, updates,
              requests>>

-----------------------------------------------------------------------------
(* Values *)

NULL == 0
EMPTY == -1

\* Python truthiness of an Optional[str]: None and "" are falsy.
Falsy(x) == x = NULL \/ x = EMPTY

\* str(x) if x else None
StrOrNone(x) == IF Falsy(x) THEN NULL ELSE x

Range(s) == {s[i] : i \in 1..Len(s)}

-----------------------------------------------------------------------------
(* sorted(rows, key=lambda r: r.get("sequence_order", 0)): Python's sort is  *)
(* stable, rows of equal key keep the order they came in.                   *)

InsertByOrder(sortedRows, row) ==
    LET k == Cardinality({i \in 1..Len(sortedRows) :
                             sortedRows[i].sequence_order <= row.sequence_order})
    IN  SubSeq(sortedRows, 1, k) \o <<row>> \o SubSeq(sortedRows, k + 1, Len(sortedRows))

RECURSIVE sorted(_)
sorted(rows) ==
    IF rows = <<>> THEN <<>>
    ELSE InsertByOrder(sorted(SubSeq(rows, 1, Len(rows) - 1)), rows[Len(rows)])

\* [s for s in parent_steps if s.get("phase_id") == phase_id]
phase_steps(rows, phase_id) == SelectSeq(rows, LAMBDA s : s.phase_id = phase_id)

\* Mutant: the phases are taken in the order their rows came in, not sorted.
sorted_phases_unsorted(rows) == SelectSeq(rows, LAMBDA p : ~Falsy(p.id))

\* sorted_phases: the phases by sequence_order, those with a falsy id skipped
sorted_phases(rows) == SelectSeq(sorted(rows), LAMBDA p : ~Falsy(p.id))

RECURSIVE extend_by_phase(_, _)
extend_by_phase(phaseRows, stepRows) ==
    IF phaseRows = <<>> THEN <<>>
    ELSE sorted(phase_steps(stepRows, Head(phaseRows).id))
            \o extend_by_phase(Tail(phaseRows), stepRows)

\* The canonical step order of a journey: phases by sequence_order, and the
\* steps of each phase by sequence_order.
all_steps_sorted(phaseRows, stepRows) ==
    extend_by_phase(sorted_phases(phaseRows), stepRows)

\* Mutant: a step that is not found counts as the last one (index -1).
parent_step_index_last(rows, id) ==
    LET hits == {i \in 1..Len(rows) : rows[i].id = id}
    IN  IF hits = {} THEN Len(rows) ELSE CHOOSE i \in hits : \A j \in hits : i <= j

\* Index (1-based) of the first row with this id, 0 when there is none.
parent_step_index(rows, id) ==
    LET hits == {i \in 1..Len(rows) : rows[i].id = id}
    IN  IF hits = {} THEN 0 ELSE CHOOSE i \in hits : \A j \in hits : i <= j

\* Mutant: the next step is looked up in the rows as loaded, not in the
\* canonical order.
compute_in_row_order(sj, pj, pphases, psteps) ==
    IF Falsy(sj.parent_step_id) THEN NULL
    ELSE LET idx == parent_step_index(psteps, sj.parent_step_id)
         IN  IF idx = 0 THEN NULL
             ELSE IF idx < Len(psteps) THEN StrOrNone(psteps[idx + 1].id)
             ELSE IF pj.is_subjourney THEN sj.parent_step_id
             ELSE NULL

\* Mutant: the loop-back applies to every parent, top-level ones included.
compute_always_loop_back(sj, pj, pphases, psteps) ==
    IF Falsy(sj.parent_step_id) THEN NULL
    ELSE LET all == all_steps_sorted(pphases, psteps)
             idx == parent_step_index(all, sj.parent_step_id)
         IN  IF idx = 0 THEN NULL
             ELSE IF idx < Len(all) THEN StrOrNone(all[idx + 1].id)
             ELSE sj.parent_step_id

\* Mutant: no loop-back, the last step never has a continuation.
compute_no_loop_back(sj, pj, pphases, psteps) ==
    IF Falsy(sj.parent_step_id) THEN NULL
    ELSE LET all == all_steps_sorted(pphases, psteps)
             idx == parent_step_index(all, sj.parent_step_id)
         IN  IF idx = 0 THEN NULL
             ELSE IF idx < Len(all) THEN StrOrNone(all[idx + 1].id)
             ELSE NULL

_compute_continue_step_id_for_subjourney(sj, pj, pphases, psteps) ==
    IF Falsy(sj.parent_step_id) THEN NULL
    ELSE LET all == all_steps_sorted(pphases, psteps)
             idx == parent_step_index(all, sj.parent_step_id)
         IN  IF idx = 0 THEN NULL
             ELSE IF idx < Len(all) THEN StrOrNone(all[idx + 1].id)
             ELSE IF pj.is_subjourney THEN sj.parent_step_id
             ELSE NULL

-----------------------------------------------------------------------------
(* The store: supabase.table(t).update(fields).eq("id", id).execute()        *)

\* journeys.update({"continue_step_id": v, "updated_at": now}).eq("id", id):
\* every row with that id gets the value; updated_at is not part of the rows.
\* Mutant: the update statement is not executed.
update_continue_step_id_lost(table, id, v) == table

\* Mutant: the update has no .eq("id", ...) filter.
update_continue_step_id_unfiltered(table, id, v) ==
    [i \in 1..Len(table) |-> [table[i] EXCEPT !.continue_step_id = v]]

update_continue_step_id(table, id, v) ==
    [i \in 1..Len(table) |->
        IF table[i].id = id THEN [table[i] EXCEPT !.continue_step_id = v] ELSE table[i]]

UpdateStatement(id, v) == [id |-> id, continue_step_id |-> v]

\* any(s.get("id") == current_str for s in parent_steps)
step_exists(psteps, current_str) == \E i \in 1..Len(psteps) : psteps[i].id = current_str

Fixed(table, sj, v) ==
    [journeys |-> update_continue_step_id(table, sj.id, v),
     updates |-> <<UpdateStatement(sj.id, v)>>,
     fixed |-> TRUE]

Unchanged(table) == [journeys |-> table, updates |-> <<>>, fixed |-> FALSE]

\* Mutant: the stored and the computed value are compared as they are, without
\* the normalisation of falsy values to None.
validate_compare_raw(table, sj, pj, pphases, psteps) ==
    LET computed == _compute_continue_step_id_for_subjourney(sj, pj, pphases, psteps)
    IN  IF computed = sj.continue_step_id THEN Unchanged(table)
        ELSE Fixed(table, sj, computed)

\* Mutant: only a stored value that names no existing step is repaired.
validate_only_missing_step(table, sj, pj, pphases, psteps) ==
    LET computed == _compute_continue_step_id_for_subjourney(sj, pj, pphases, psteps)
        computed_str == StrOrNone(computed)
        current_str == StrOrNone(sj.continue_step_id)
    IN  IF computed_str = current_str THEN Unchanged(table)
        ELSE IF ~Falsy(current_str) /\ ~step_exists(psteps, current_str)
             THEN Fixed(table, sj, computed)
             ELSE [Unchanged(table) EXCEPT !.fixed = TRUE]

\* The journeys table after the call, the update statements it executed and
\* its return value.
_validate_and_fix_continue_step_id(table, sj, pj, pphases, psteps) ==
    LET computed == _compute_continue_step_id_for_subjourney(sj, pj, pphases, psteps)
        computed_str == StrOrNone(computed)
        current_str == StrOrNone(sj.continue_step_id)
    IN  IF computed_str = current_str THEN Unchanged(table)
        ELSE IF ~Falsy(current_str) /\ ~step_exists(psteps, current_str)
             THEN Fixed(table, sj, computed)
             ELSE Fixed(table, sj, computed)

-----------------------------------------------------------------------------
(* Calls of the continuation computer on drawn arguments *)

MaxArgPhases == 2
MaxArgSteps == 3
MaxArgOrder == 2

ArgPhaseIds == 1..MaxArgPhases
ArgStepIds == 1..MaxArgSteps
ArgOrders == 1..MaxArgOrder

\* Lists of n rows with ids 1..n.  Ids are only ever compared for equality, so
\* every list of rows with distinct ids is one of these up to a renaming of ids;
\* the sequence_orders are free, so the rows come in any order relative to them.
\* sequence_orders are only ever compared with each other, and only within one
\* list (steps: within one phase), so every list is order-isomorphic to one whose
\* sequence_orders are exactly 1..k for some k: only those are drawn.
Dense(o, n) == \E k \in 0..n : {o[i] : i \in 1..n} = 1..k

ArgPhaseLists ==
    UNION { { [i \in 1..n |-> [id |-> i, journey_id |-> 1, sequence_order |-> o[i]]]
              : o \in {f \in [1..n -> ArgOrders] : Dense(f, n)} }
            : n \in 0..MaxArgPhases }

ArgStepLists ==
    UNION { { [i \in 1..n |-> [id |-> i, phase_id |-> ph[i], sequence_order |-> o[i]]]
              : ph \in [1..n -> ArgPhaseIds],
                o \in {f \in [1..n -> ArgOrders] : Dense(f, n)} }
            : n \in 0..MaxArgSteps }

JourneyRow(id, is_sub, parent, continue) ==
    [id |-> id, is_subjourney |-> is_sub,
     parent_step_id |-> parent, continue_step_id |-> continue]

NoCall == [fn |-> "none", value |-> NULL]

\* No request is in flight: the handlers run one at a time.
NoRequests == <<>>

NoResponse == [op |-> "none"]

StoreEmpty ==
    /\ journeys = <<>>
    /\ phases = <<>>
    /\ steps = <<>>
    /\ uuid = [journeys |-> 0, phases |-> 0, steps |-> 0]
    /\ response = NoResponse

\* The parent structure is drawn; the call draws the subjourney and the parent row.
ComputeInit ==
    /\ StoreEmpty
    /\ parent_phases \in ArgPhaseLists
    /\ parent_steps \in ArgStepLists
    /\ parent_journey = JourneyRow(1, FALSE, NULL, NULL)
    /\ subjourney = JourneyRow(2, TRUE, NULL, NULL)
    /\ result = NoCall
    /\ updates = <<>>
    /\ requests = NoRequests

CallCompute ==
    /\ result.fn = "none"
    /\ \E is_sub \in BOOLEAN, p \in {NULL, EMPTY} \cup 1..(Len(parent_steps) + 1) :
          /\ parent_journey' = JourneyRow(1, is_sub, NULL, NULL)
          /\ subjourney' = JourneyRow(2, TRUE, p, NULL)
          /\ result' = [fn |-> "compute",
                        value |-> _compute_continue_step_id_for_subjourney(
                                      subjourney', parent_journey',
                                      parent_phases, parent_steps)]
    /\ UNCHANGED <<parent_phases, parent_steps, updates, requests>>
    /\ UNCHANGED storeVars

ComputeNext == CallCompute

SpecCompute == ComputeInit /\ [][ComputeNext]_vars

-----------------------------------------------------------------------------
(* Calls of the validator on drawn arguments.  Its callers load the phases   *)
(* and the steps with .order("sequence_order"), so the lists come ordered.   *)

StoreOrdered(rows) ==
    \A i \in 1..(Len(rows) - 1) : rows[i].sequence_order <= rows[i + 1].sequence_order

\* A second subjourney with the same anchor and the same stored continuation.
Sibling(sj) == JourneyRow(sj.id + 1, TRUE, sj.parent_step_id, sj.continue_step_id)

ValidateInit ==
    /\ phases = <<>>
    /\ steps = <<>>
    /\ uuid = [journeys |-> 3, phases |-> 0, steps |-> 0]
    /\ response = NoResponse
    /\ parent_phases \in {l \in ArgPhaseLists : StoreOrdered(l)}
    /\ parent_steps \in {l \in ArgStepLists : StoreOrdered(l)}
    /\ parent_journey \in {JourneyRow(1, b, NULL, NULL) : b \in BOOLEAN}
    /\ subjourney \in {JourneyRow(2, TRUE, p, c) :
                          p \in {NULL} \cup 1..(Len(parent_steps) + 1),
                          c \in {NULL, EMPTY} \cup 1..(MaxArgSteps + 1)}
    /\ journeys = <<parent_journey, subjourney, Sibling(subjourney)>>
    /\ result = NoCall
    /\ updates = <<>>
    /\ requests = NoRequests

CallValidate ==
    /\ result.fn = "none"
    /\ LET r == _validate_and_fix_continue_step_id(
                    journeys, subjourney, parent_journey, parent_phases, parent_steps)
       IN  /\ journeys' = r.journeys
           /\ updates' = r.updates
           /\ result' = [fn |-> "validate", value |-> r.fixed]
    /\ UNCHANGED <<subjourney, parent_journey, parent_phases, parent_steps, requests>>
    /\ UNCHANGED <<phases, steps, uuid, response>>

ValidateNext == CallValidate

SpecValidate == ValidateInit /\ [][ValidateNext]_vars

-----------------------------------------------------------------------------
(* The store's queries.  A table is the sequence of its rows in the store's  *)
(* row order; .order("sequence_order") returns the rows by sequence_order,   *)
(* rows of equal sequence_order in the table's row order.                    *)

PhaseRow(id, journey_id, sequence_order) ==
    [id |-> id, journey_id |-> journey_id, sequence_order |-> sequence_order]

StepRow(id, phase_id, sequence_order) ==
    [id |-> id, phase_id |-> phase_id, sequence_order |-> sequence_order]

Ids(rows) == {rows[i].id : i \in 1..Len(rows)}

\* table("journeys").select("*").eq("id", journey_id)
select_journey(jt, journey_id) == SelectSeq(jt, LAMBDA j : j.id = journey_id)

\* table("phases").select("*").eq("journey_id", journey_id).order("sequence_order")
select_phases(pt, journey_id) ==
    sorted(SelectSeq(pt, LAMBDA p : p.journey_id = journey_id))

\* if phase_ids: table("steps").select("*").in_("phase_id", phase_ids)
\*                   .order("sequence_order")
select_steps(st, phaseRows) ==
    IF phaseRows = <<>> THEN <<>>
    ELSE sorted(SelectSeq(st, LAMBDA x : x.phase_id \in Ids(phaseRows)))

\* table("journeys").select("*").eq("is_subjourney", True)
\*     .in_("parent_step_id", [s["id"] for s in steps])
select_subjourneys(jt, stepRows) ==
    SelectSeq(jt, LAMBDA j : j.is_subjourney /\ j.parent_step_id \in Ids(stepRows))

-----------------------------------------------------------------------------
(* The journey-scoped repair sweep *)

\* Mutant: only the first subjourney of the list is validated.
validate_each_first_only(jt, subs, journey, phaseRows, stepRows) ==
    IF subs = <<>> THEN [journeys |-> jt, updates |-> <<>>, fixed_count |-> 0]
    ELSE LET r == _validate_and_fix_continue_step_id(
                      jt, Head(subs), journey, phaseRows, stepRows)
         IN  [journeys |-> r.journeys,
              updates |-> r.updates,
              fixed_count |-> IF r.fixed THEN 1 ELSE 0]

\* for subjourney in subjourneys: _validate_and_fix_continue_step_id(...)
RECURSIVE validate_each(_, _, _, _, _)
validate_each(jt, subs, journey, phaseRows, stepRows) ==
    IF subs = <<>> THEN [journeys |-> jt, updates |-> <<>>, fixed_count |-> 0]
    ELSE LET r == _validate_and_fix_continue_step_id(
                      jt, Head(subs), journey, phaseRows, stepRows)
             rest == validate_each(r.journeys, Tail(subs), journey, phaseRows, stepRows)
         IN  [journeys |-> rest.journeys,
              updates |-> r.updates \o rest.updates,
              fixed_count |-> (IF r.fixed THEN 1 ELSE 0) + rest.fixed_count]

\* The journeys table after the sweep of journey_id, with the update
\* statements it executed and how many subjourneys it fixed.
_update_continue_step_ids_for_journey(jt, pt, st, journey_id) ==
    LET found == select_journey(jt, journey_id)
    IN  IF found = <<>> THEN [journeys |-> jt, updates |-> <<>>, fixed_count |-> 0]
        ELSE LET phaseRows == select_phases(pt, journey_id)
                 stepRows == select_steps(st, phaseRows)
                 subs == select_subjourneys(jt, stepRows)
             IN  validate_each(jt, subs, found[1], phaseRows, stepRows)

-----------------------------------------------------------------------------
(* POST /journeys/validate-continue-step-ids/{project_id}: the model holds   *)
(* one project, and the caller is a member of its team.                      *)

\* for journey in journeys: (the top-level journeys loaded at the start)
RECURSIVE validate_journeys(_, _, _, _)
validate_journeys(jt, pt, st, tops) ==
    IF tops = <<>>
    THEN [journeys |-> jt, updates |-> <<>>, fixed_count |-> 0, total_subjourneys |-> 0]
    ELSE LET phaseRows == select_phases(pt, Head(tops).id)
             stepRows == select_steps(st, phaseRows)
             subs == IF stepRows = <<>> THEN <<>> ELSE select_subjourneys(jt, stepRows)
             r == validate_each(jt, subs, Head(tops), phaseRows, stepRows)
             rest == validate_journeys(r.journeys, pt, st, Tail(tops))
         IN  [journeys |-> rest.journeys,
              updates |-> r.updates \o rest.updates,
              fixed_count |-> r.fixed_count + rest.fixed_count,
              total_subjourneys |-> Len(subs) + rest.total_subjourneys]

\* table("journeys").select("*").eq("project_id", ...).eq("is_subjourney", False)
top_level_journeys(jt) == SelectSeq(jt, LAMBDA j : ~j.is_subjourney)

project_validation(jt, pt, st) == validate_journeys(jt, pt, st, top_level_journeys(jt))

validate_and_fix_continue_step_ids ==
    LET r == project_validation(journeys, phases, steps)
    IN  /\ journeys' = r.journeys
        /\ response' = [op |-> "validate_and_fix_continue_step_ids", status |-> 200,
                        fixed_count |-> r.fixed_count,
                        total_subjourneys |-> r.total_subjourneys]
        /\ UNCHANGED <<phases, steps, uuid>>

-----------------------------------------------------------------------------
(* The project validation when the store fails: failing holds the ids of the *)
(* journeys whose update statement raises when it is executed.  Nothing      *)
(* catches the exception before the handler's "except Exception", so it ends *)
(* the loops; the updates executed before stay in the store.                 *)

\* for subjourney in subjourneys: ... (until an update raises)
RECURSIVE validate_each_or_raise(_, _, _, _, _, _)
validate_each_or_raise(jt, subs, journey, phaseRows, stepRows, failing) ==
    IF subs = <<>> THEN [journeys |-> jt, raised |-> FALSE, fixed_count |-> 0]
    ELSE LET r == _validate_and_fix_continue_step_id(
                      jt, Head(subs), journey, phaseRows, stepRows)
         IN  IF r.fixed /\ Head(subs).id \in failing
             THEN [journeys |-> jt, raised |-> TRUE, fixed_count |-> 0]
             ELSE LET rest == validate_each_or_raise(r.journeys, Tail(subs), journey,
                                                     phaseRows, stepRows, failing)
                  IN  [journeys |-> rest.journeys,
                       raised |-> rest.raised,
                       fixed_count |-> (IF r.fixed THEN 1 ELSE 0) + rest.fixed_count]

\* for journey in journeys: ... (until an update raises)
RECURSIVE validate_journeys_or_raise(_, _, _, _, _)
validate_journeys_or_raise(jt, pt, st, tops, failing) ==
    IF tops = <<>>
    THEN [journeys |-> jt, raised |-> FALSE, fixed_count |-> 0, total_subjourneys |-> 0]
    ELSE LET phaseRows == select_phases(pt, Head(tops).id)
             stepRows == select_steps(st, phaseRows)
             subs == IF stepRows = <<>> THEN <<>> ELSE select_subjourneys(jt, stepRows)
             r == validate_each_or_raise(jt, subs, Head(tops), phaseRows, stepRows, failing)
         IN  IF r.raised
             THEN [journeys |-> r.journeys, raised |-> TRUE,
                   fixed_count |-> 0, total_subjourneys |-> 0]
             ELSE LET rest == validate_journeys_or_raise(r.journeys, pt, st,
                                                         Tail(tops), failing)
                  IN  [journeys |-> rest.journeys,
                       raised |-> rest.raised,
                       fixed_count |-> r.fixed_count + rest.fixed_count,
                       total_subjourneys |-> Len(subs) + rest.total_subjourneys]

\* The endpoint: 500 when an update raised, the report otherwise.
validate_and_fix_with_store_failures(failing) ==
    LET r == validate_journeys_or_raise(journeys, phases, steps,
                                        top_level_journeys(journeys), failing)
    IN  /\ journeys' = r.journeys
        /\ response' = IF r.raised
                       THEN [op |-> "validate_and_fix_continue_step_ids", status |-> 500,
                             failing |-> failing]
                       ELSE [op |-> "validate_and_fix_continue_step_ids", status |-> 200,
                             failing |-> failing,
                             fixed_count |-> r.fixed_count,
                             total_subjourneys |-> r.total_subjourneys]
        /\ UNCHANGED <<phases, steps, uuid>>

-----------------------------------------------------------------------------
(* GET /journeys/{journey_id}/structure *)

\* Mutant: the subjourney is not reloaded after a fix.
reloaded_continue_step_id_stale(jt, sj, was_fixed) == sj.continue_step_id

\* if was_fixed: reload the subjourney row and take its continue_step_id
reloaded_continue_step_id(jt, sj, was_fixed) ==
    LET rows == select_journey(jt, sj.id)
    IN  IF was_fixed /\ rows # <<>> THEN rows[1].continue_step_id
        ELSE sj.continue_step_id

\* if not continue_step_id: derive it, and take the derived value if there is one
derived_continue_step_id(current, sj, journey, phaseRows, stepRows) ==
    IF Falsy(current)
    THEN LET derived == _compute_continue_step_id_for_subjourney(
                            [sj EXCEPT !.continue_step_id = current],
                            journey, phaseRows, stepRows)
         IN  IF Falsy(derived) THEN current ELSE derived
    ELSE current

\* for subjourney in subjourneys_raw: validate, reload, derive, append
RECURSIVE structure_each(_, _, _, _, _)
structure_each(jt, subs, journey, phaseRows, stepRows) ==
    IF subs = <<>> THEN [journeys |-> jt, subjourneys |-> <<>>]
    ELSE LET sj == Head(subs)
             r == _validate_and_fix_continue_step_id(jt, sj, journey, phaseRows, stepRows)
             reloaded == reloaded_continue_step_id(r.journeys, sj, r.fixed)
             shown == derived_continue_step_id(reloaded, sj, journey, phaseRows, stepRows)
             rest == structure_each(r.journeys, Tail(subs), journey, phaseRows, stepRows)
         IN  [journeys |-> rest.journeys,
              subjourneys |-> <<[sj EXCEPT !.continue_step_id = shown]>>
                                  \o rest.subjourneys]

get_journey_structure(journey_id, include_subjourneys) ==
    LET found == select_journey(journeys, journey_id)
    IN  IF found = <<>>
        THEN /\ response' = [op |-> "get_journey_structure", status |-> 404,
                             journey_id |-> journey_id]
             /\ UNCHANGED <<journeys, phases, steps, uuid>>
        ELSE LET phaseRows == select_phases(phases, journey_id)
                 stepRows == select_steps(steps, phaseRows)
                 subs == IF include_subjourneys /\ stepRows # <<>>
                         THEN select_subjourneys(journeys, stepRows) ELSE <<>>
                 r == structure_each(journeys, subs, found[1], phaseRows, stepRows)
             IN  /\ journeys' = r.journeys
                 /\ response' = [op |-> "get_journey_structure", status |-> 200,
                                 journey_id |-> journey_id,
                                 include_subjourneys |-> include_subjourneys,
                                 subjourneys |-> r.subjourneys]
                 /\ UNCHANGED <<phases, steps, uuid>>

-----------------------------------------------------------------------------
(* POST /phases/{phase_id}/reorder-steps *)

\* table("steps").update({"sequence_order": n, ...}).eq("id", id).eq("phase_id", p)
update_step_order(st, step_id, phase_id, n) ==
    [i \in 1..Len(st) |->
        IF st[i].id = step_id /\ st[i].phase_id = phase_id
        THEN [st[i] EXCEPT !.sequence_order = n] ELSE st[i]]

\* for index, step_id in enumerate(step_ids): sequence_order = index + 1
\* (from is the 1-based position of the next id to handle)
RECURSIVE renumber_steps(_, _, _, _)
renumber_steps(st, phase_id, step_ids, from) ==
    IF from > Len(step_ids) THEN st
    ELSE renumber_steps(update_step_order(st, step_ids[from], phase_id, from),
                        phase_id, step_ids, from + 1)

\* Mutant: the ids are not checked against the phase.
valid_ids_of_any_phase(st, phase_id, step_ids) ==
    {st[i].id : i \in {k \in 1..Len(st) : st[k].id \in Range(step_ids)}}

\* valid_ids: the ids of the list that are steps of the phase
valid_ids(st, phase_id, step_ids) ==
    {st[i].id : i \in {k \in 1..Len(st) :
                          st[k].id \in Range(step_ids) /\ st[k].phase_id = phase_id}}

reorder_steps(phase_id, step_ids) ==
    IF SelectSeq(phases, LAMBDA p : p.id = phase_id) = <<>>
    THEN /\ response' = [op |-> "reorder_steps", status |-> 404, phase_id |-> phase_id,
                         step_ids |-> step_ids]
         /\ UNCHANGED <<journeys, phases, steps, uuid>>
    ELSE IF step_ids # <<>> /\ ~(Range(step_ids) \subseteq valid_ids(steps, phase_id, step_ids))
    THEN /\ response' = [op |-> "reorder_steps", status |-> 400, phase_id |-> phase_id,
                         step_ids |-> step_ids]
         /\ UNCHANGED <<journeys, phases, steps, uuid>>
    ELSE /\ steps' = renumber_steps(steps, phase_id, step_ids, 1)
         /\ response' = [op |-> "reorder_steps", status |-> 200, phase_id |-> phase_id,
                         step_ids |-> step_ids]
         /\ UNCHANGED <<journeys, phases, uuid>>

-----------------------------------------------------------------------------
(* POST /journeys/{journey_id}/reorder-phases *)

\* table("phases").update({"sequence_order": n, ...}).eq("id", id).eq("journey_id", j)
update_phase_order(pt, phase_id, journey_id, n) ==
    [i \in 1..Len(pt) |->
        IF pt[i].id = phase_id /\ pt[i].journey_id = journey_id
        THEN [pt[i] EXCEPT !.sequence_order = n] ELSE pt[i]]

\* for index, phase_id in enumerate(payload.phase_ids): sequence_order = index + 1
RECURSIVE renumber_phases(_, _, _, _)
renumber_phases(pt, journey_id, phase_ids, from) ==
    IF from > Len(phase_ids) THEN pt
    ELSE renumber_phases(update_phase_order(pt, phase_ids[from], journey_id, from),
                         journey_id, phase_ids, from + 1)

\* valid_ids: the ids of the list that are phases of the journey
valid_phase_ids(pt, journey_id, phase_ids) ==
    {pt[i].id : i \in {k \in 1..Len(pt) :
                          pt[k].id \in Range(phase_ids) /\ pt[k].journey_id = journey_id}}

reorder_phases(journey_id, phase_ids) ==
    IF select_journey(journeys, journey_id) = <<>>
    THEN /\ response' = [op |-> "reorder_phases", status |-> 404, journey_id |-> journey_id,
                         phase_ids |-> phase_ids]
         /\ UNCHANGED <<journeys, phases, steps, uuid>>
    ELSE IF /\ phase_ids # <<>>
            /\ ~(Range(phase_ids) \subseteq valid_phase_ids(phases, journey_id, phase_ids))
    THEN /\ response' = [op |-> "reorder_phases", status |-> 400, journey_id |-> journey_id,
                         phase_ids |-> phase_ids]
         /\ UNCHANGED <<journeys, phases, steps, uuid>>
    ELSE /\ phases' = renumber_phases(phases, journey_id, phase_ids, 1)
         /\ response' = [op |-> "reorder_phases", status |-> 200, journey_id |-> journey_id,
                         phase_ids |-> phase_ids]
         /\ UNCHANGED <<journeys, steps, uuid>>

-----------------------------------------------------------------------------
(* POST /steps/{step_id}/move *)

\* max_order_res: ...order("sequence_order", desc=True).limit(1); + 1, or 1
next_order(st, phase_id) ==
    LET orders == {st[i].sequence_order :
                      i \in {k \in 1..Len(st) : st[k].phase_id = phase_id}}
    IN  IF orders = {} THEN 1
        ELSE (CHOOSE m \in orders : \A o \in orders : o <= m) + 1

\* table("steps").update({"phase_id": ..., "sequence_order": ...}).eq("id", step_id)
update_step_phase(st, step_id, phase_id, n) ==
    [i \in 1..Len(st) |->
        IF st[i].id = step_id
        THEN [st[i] EXCEPT !.phase_id = phase_id, !.sequence_order = n] ELSE st[i]]

\* table("steps").select("id").eq("phase_id", phase_id).order("sequence_order")
steps_in_phase(st, phase_id) ==
    LET rows == sorted(SelectSeq(st, LAMBDA x : x.phase_id = phase_id))
    IN  [i \in 1..Len(rows) |-> rows[i].id]

\* Mutant: the phase is not renumbered.
normalize_phase_skipped(st, phase_id) == st

\* Normalize source phase ordering (1-based contiguous)
normalize_phase(st, phase_id) ==
    renumber_steps(st, phase_id, steps_in_phase(st, phase_id), 1)

\* Mutant: the source journey is not swept.
sweep_source_journey_skipped(jt, pt, st, source_phase_id, target_phase_id, target_journey_id) ==
    jt

\* Also update source journey if different
sweep_source_journey(jt, pt, st, source_phase_id, target_phase_id, target_journey_id) ==
    LET source == SelectSeq(pt, LAMBDA p : p.id = source_phase_id)
    IN  IF /\ ~Falsy(source_phase_id)
           /\ source_phase_id # target_phase_id
           /\ source # <<>>
           /\ ~Falsy(source[1].journey_id)
           /\ source[1].journey_id # target_journey_id
        THEN _update_continue_step_ids_for_journey(jt, pt, st, source[1].journey_id).journeys
        ELSE jt

move_step_to_phase(step_id, phase_id) ==
    LET found == SelectSeq(steps, LAMBDA x : x.id = step_id)
        target == SelectSeq(phases, LAMBDA p : p.id = phase_id)
    IN  IF found = <<>> \/ target = <<>>
        THEN /\ response' = [op |-> "move_step_to_phase", status |-> 404,
                             step_id |-> step_id, phase_id |-> phase_id]
             /\ UNCHANGED <<journeys, phases, steps, uuid>>
        ELSE LET source_phase_id == found[1].phase_id
                 moved == update_step_phase(steps, step_id, phase_id,
                                            next_order(steps, phase_id))
                 normalized == IF ~Falsy(source_phase_id) /\ source_phase_id # phase_id
                               THEN normalize_phase(moved, source_phase_id)
                               ELSE moved
                 target_journey_id == target[1].journey_id
                 swept == IF ~Falsy(target_journey_id)
                          THEN _update_continue_step_ids_for_journey(
                                   journeys, phases, normalized, target_journey_id).journeys
                          ELSE journeys
             IN  /\ steps' = normalized
                 /\ journeys' = sweep_source_journey(swept, phases, normalized,
                                    source_phase_id, phase_id, target_journey_id)
                 /\ response' = [op |-> "move_step_to_phase", status |-> 200,
                                 step_id |-> step_id, phase_id |-> phase_id,
                                 source_phase_id |-> source_phase_id]
                 /\ UNCHANGED <<phases, uuid>>

-----------------------------------------------------------------------------
(* DELETE /steps/{step_id} and DELETE /phases/{phase_id} *)

\* What the store does to the journeys that name a step when the step's row
\* is deleted: nothing, the references are left as they are.
journeys_on_step_delete(jt, step_id) == jt

\* What the store does to the steps of a phase when the phase's row is
\* deleted: they are deleted with it.
steps_on_phase_delete(st, phase_id) == SelectSeq(st, LAMBDA x : x.phase_id # phase_id)

\* affected_subjourney_ids: subjourneys whose continue_step_id is the step
affected_subjourney_ids(jt, step_id) ==
    LET rows == SelectSeq(jt, LAMBDA j : j.is_subjourney /\ j.continue_step_id = step_id)
    IN  [i \in 1..Len(rows) |-> rows[i].id]

\* The journey holding the step a subjourney is anchored at: parent_step_id,
\* that step's phase_id, that phase's journey_id; NULL when a lookup fails.
parent_journey_id(jt, pt, st, subjourney_id) ==
    LET sj == select_journey(jt, subjourney_id)
        stepRows == IF sj = <<>> \/ Falsy(sj[1].parent_step_id) THEN <<>>
                    ELSE SelectSeq(st, LAMBDA x : x.id = sj[1].parent_step_id)
        phaseRows == IF stepRows = <<>> \/ Falsy(stepRows[1].phase_id) THEN <<>>
                     ELSE SelectSeq(pt, LAMBDA p : p.id = stepRows[1].phase_id)
    IN  IF phaseRows = <<>> THEN NULL ELSE phaseRows[1].journey_id

\* for subjourney_id in affected_subjourney_ids: sweep its parent journey
RECURSIVE sweep_affected(_, _, _, _)
sweep_affected(jt, pt, st, ids) ==
    IF ids = <<>> THEN jt
    ELSE LET parent == parent_journey_id(jt, pt, st, Head(ids))
             swept == IF Falsy(parent) THEN jt
                      ELSE _update_continue_step_ids_for_journey(jt, pt, st, parent).journeys
         IN  sweep_affected(swept, pt, st, Tail(ids))

delete_step(step_id) ==
    LET found == SelectSeq(steps, LAMBDA x : x.id = step_id)
        phase == IF found = <<>> THEN <<>>
                 ELSE SelectSeq(phases, LAMBDA p : p.id = found[1].phase_id)
    IN  IF phase = <<>> \/ select_journey(journeys, phase[1].journey_id) = <<>>
        THEN /\ response' = [op |-> "delete_step", status |-> 404, step_id |-> step_id]
             /\ UNCHANGED <<journeys, phases, steps, uuid>>
        ELSE LET phase_id == found[1].phase_id
                 journey_id == phase[1].journey_id
                 affected == affected_subjourney_ids(journeys, step_id)
                 deleted == SelectSeq(steps, LAMBDA x : x.id # step_id)
                 left == journeys_on_step_delete(journeys, step_id)
                 remaining == normalize_phase(deleted, phase_id)
                 swept == IF Falsy(journey_id) THEN left
                          ELSE _update_continue_step_ids_for_journey(
                                   left, phases, remaining, journey_id).journeys
             IN  /\ steps' = remaining
                 /\ journeys' = sweep_affected(swept, phases, remaining, affected)
                 /\ response' = [op |-> "delete_step", status |-> 200, step_id |-> step_id,
                                 journey_id |-> journey_id]
                 /\ UNCHANGED <<phases, uuid>>

delete_phase(phase_id) ==
    LET found == SelectSeq(phases, LAMBDA p : p.id = phase_id)
    IN  IF found = <<>> \/ select_journey(journeys, found[1].journey_id) = <<>>
        THEN /\ response' = [op |-> "delete_phase", status |-> 404, phase_id |-> phase_id]
             /\ UNCHANGED <<journeys, phases, steps, uuid>>
        ELSE /\ phases' = SelectSeq(phases, LAMBDA p : p.id # phase_id)
             /\ steps' = steps_on_phase_delete(steps, phase_id)
             /\ response' = [op |-> "delete_phase", status |-> 200, phase_id |-> phase_id,
                             journey_id |-> found[1].journey_id]
             /\ UNCHANGED <<journeys, uuid>>

-----------------------------------------------------------------------------
(* POST /steps/create *)

\* The phase is looked up with its journey (journeys!inner); the step is
\* inserted with the sequence_order of the request.  No sweep follows.
create_step(phase_id, sequence_order) ==
    LET found == SelectSeq(phases, LAMBDA p : p.id = phase_id)
        id == uuid.steps + 1
    IN  IF found = <<>> \/ select_journey(journeys, found[1].journey_id) = <<>>
        THEN /\ response' = [op |-> "create_step", status |-> 404, phase_id |-> phase_id]
             /\ UNCHANGED <<journeys, phases, steps, uuid>>
        ELSE /\ steps' = Append(steps, StepRow(id, phase_id, sequence_order))
             /\ uuid' = [uuid EXCEPT !.steps = id]
             /\ response' = [op |-> "create_step", status |-> 200, phase_id |-> phase_id,
                             journey_id |-> found[1].journey_id,
                             step |-> StepRow(id, phase_id, sequence_order)]
             /\ UNCHANGED <<journeys, phases>>

-----------------------------------------------------------------------------
(* POST /journeys/create *)

\* The continuation computed at creation: the parent step's phase, that
\* phase's journey, its phases and steps; the given value when a lookup fails.
\* Mutant: nothing is computed at creation.
continue_step_id_not_computed(jt, pt, st, parent_step_id, given) == given

continue_step_id_at_creation(jt, pt, st, parent_step_id, given) ==
    LET stepRows == SelectSeq(st, LAMBDA x : x.id = parent_step_id)
        phaseRows == IF stepRows = <<>> THEN <<>>
                     ELSE SelectSeq(pt, LAMBDA p : p.id = stepRows[1].phase_id)
        found == IF phaseRows = <<>> THEN <<>>
                 ELSE select_journey(jt, phaseRows[1].journey_id)
    IN  IF found = <<>> THEN given
        ELSE LET parent_phases_ == select_phases(pt, found[1].id)
                 parent_steps_ == select_steps(st, parent_phases_)
             IN  _compute_continue_step_id_for_subjourney(
                     JourneyRow(NULL, TRUE, parent_step_id, NULL),
                     found[1], parent_phases_, parent_steps_)

create_journey(is_subjourney, parent_step_id, continue_step_id) ==
    LET computed == IF is_subjourney /\ ~Falsy(parent_step_id) /\ Falsy(continue_step_id)
                    THEN continue_step_id_at_creation(
                             journeys, phases, steps, parent_step_id, continue_step_id)
                    ELSE continue_step_id
        id == uuid.journeys + 1
        row == JourneyRow(id, is_subjourney, parent_step_id, computed)
    IN  /\ journeys' = Append(journeys, row)
        /\ uuid' = [uuid EXCEPT !.journeys = id]
        /\ response' = [op |-> "create_journey", status |-> 200, journey |-> row,
                        request |-> [is_subjourney |-> is_subjourney,
                                     parent_step_id |-> parent_step_id,
                                     continue_step_id |-> continue_step_id]]
        /\ UNCHANGED <<phases, steps>>

-----------------------------------------------------------------------------
(* PATCH /journeys/{journey_id} and DELETE /journeys/{journey_id} *)

\* update_data holds updated_at, name and description only: none of the
\* columns of JourneyRow is written.
update_journey(journey_id) ==
    LET found == select_journey(journeys, journey_id)
    IN  /\ response' = IF found = <<>>
                       THEN [op |-> "update_journey", status |-> 404,
                             journey_id |-> journey_id]
                       ELSE [op |-> "update_journey", status |-> 200,
                             journey_id |-> journey_id, journey |-> found[1]]
        /\ UNCHANGED <<journeys, phases, steps, uuid>>

\* What the store does to the phases of a journey when the journey's row is
\* deleted: they are deleted with it.
phases_on_journey_delete(pt, journey_id) ==
    SelectSeq(pt, LAMBDA x : x.journey_id # journey_id)

\* The steps left once the phases of the journey are gone.
RECURSIVE steps_on_journey_delete(_, _)
steps_on_journey_delete(st, phaseRows) ==
    IF phaseRows = <<>> THEN st
    ELSE steps_on_journey_delete(steps_on_phase_delete(st, Head(phaseRows).id),
                                 Tail(phaseRows))

delete_journey(journey_id) ==
    LET found == select_journey(journeys, journey_id)
    IN  IF found = <<>>
        THEN /\ response' = [op |-> "delete_journey", status |-> 404,
                             journey_id |-> journey_id]
             /\ UNCHANGED <<journeys, phases, steps, uuid>>
        ELSE /\ journeys' = SelectSeq(journeys, LAMBDA j : j.id # journey_id)
             /\ phases' = phases_on_journey_delete(phases, journey_id)
             /\ steps' = steps_on_journey_delete(steps, select_phases(phases, journey_id))
             /\ response' = [op |-> "delete_journey", status |-> 200,
                             journey_id |-> journey_id]
             /\ UNCHANGED uuid

-----------------------------------------------------------------------------
(* Requests in flight.  A handler is a sequence of store calls with no       *)
(* transaction around them.  A handler never awaits, so one server process   *)
(* runs its requests one after the other; the requests of different server   *)
(* processes on the same store interleave.  A request advances by one store  *)
(* call, with the Python that follows it.                                    *)
(* at names the call the request makes next.  The membership lookups and the *)
(* reads of cards and of a subjourney's own phases and steps change nothing  *)
(* the request uses later and are left out.                                  *)

Callers == {1, 2}

\* What a sweep has loaded so far, and where its caller goes on afterwards.
NoSweep ==
    [journey_id |-> NULL, journey |-> JourneyRow(NULL, FALSE, NULL, NULL),
     phases |-> <<>>, steps |-> <<>>, subjourneys |-> <<>>, index |-> 0,
     then |-> "returned"]

Idle ==
    [op |-> "none", at |-> "idle", status |-> 0,
     step_id |-> NULL, phase_id |-> NULL, step_ids |-> <<>>,
     source_phase_id |-> NULL, journey_id |-> NULL, target_journey_id |-> NULL,
     next_order |-> 0, remaining |-> <<>>, index |-> 0,
     affected |-> <<>>, parent_step_id |-> NULL, parent_phase_id |-> NULL,
     sweep |-> NoSweep]

\* return / raise HTTPException(status)
Return(r, status) == [r EXCEPT !.at = "returned", !.status = status]

\* The request goes on at the call named, or returns success.
Goto(r, at) == IF at = "returned" THEN Return(r, 200) ELSE [r EXCEPT !.at = at]

\* if journey_id: _update_continue_step_ids_for_journey(supabase, journey_id)
BeginSweep(r, journey_id, then) ==
    IF Falsy(journey_id) THEN Goto(r, then)
    ELSE [r EXCEPT !.at = "sweep_journey",
                   !.sweep = [NoSweep EXCEPT !.journey_id = journey_id, !.then = then]]

SweepCalls ==
    {"sweep_journey", "sweep_phases", "sweep_steps", "sweep_subjourneys", "sweep_validate"}

\* One store call of _update_continue_step_ids_for_journey: the four selects,
\* then _validate_and_fix_continue_step_id for the next subjourney loaded,
\* against the journey, phases and steps loaded.
sweep_call(jt, pt, st, r) ==
    LET w == r.sweep
    IN  CASE r.at = "sweep_journey" ->
               LET found == select_journey(jt, w.journey_id)
               IN  [journeys |-> jt,
                    request |-> IF found = <<>> THEN Goto(r, w.then)
                                ELSE [r EXCEPT !.at = "sweep_phases",
                                               !.sweep.journey = found[1]]]
          [] r.at = "sweep_phases" ->
               LET phaseRows == select_phases(pt, w.journey_id)
               IN  [journeys |-> jt,
                    request |-> [r EXCEPT !.at = IF phaseRows = <<>>
                                                 THEN "sweep_subjourneys" ELSE "sweep_steps",
                                          !.sweep.phases = phaseRows]]
          [] r.at = "sweep_steps" ->
               [journeys |-> jt,
                request |-> [r EXCEPT !.at = "sweep_subjourneys",
                                      !.sweep.steps = select_steps(st, w.phases)]]
          [] r.at = "sweep_subjourneys" ->
               LET subs == select_subjourneys(jt, w.steps)
               IN  [journeys |-> jt,
                    request |-> IF subs = <<>> THEN Goto(r, w.then)
                                ELSE [r EXCEPT !.at = "sweep_validate",
                                               !.sweep.subjourneys = subs,
                                               !.sweep.index = 1]]
          [] r.at = "sweep_validate" ->
               LET v == _validate_and_fix_continue_step_id(
                            jt, w.subjourneys[w.index], w.journey, w.phases, w.steps)
               IN  [journeys |-> v.journeys,
                    request |-> IF w.index = Len(w.subjourneys) THEN Goto(r, w.then)
                                ELSE [r EXCEPT !.sweep.index = w.index + 1]]

\* One store call of get_journey_structure: the journey, then the phases,
\* steps and subjourneys and the validation of each subjourney, which are the
\* calls of the sweep.
structure_call(jt, pt, st, r) ==
    \* r.at = "structure_select_journey"
    LET found == select_journey(jt, r.journey_id)
    IN  [journeys |-> jt,
         steps |-> st,
         request |-> IF found = <<>> THEN Return(r, 404)
                     ELSE [r EXCEPT !.at = "sweep_phases",
                                    !.sweep = [NoSweep EXCEPT !.journey_id = r.journey_id,
                                                              !.journey = found[1]]]]

\* One store call of move_step_to_phase.
move_call(jt, pt, st, r) ==
    CASE r.at = "move_select_step" ->
           LET found == SelectSeq(st, LAMBDA x : x.id = r.step_id)
           IN  [journeys |-> jt, steps |-> st,
                request |-> IF found = <<>> THEN Return(r, 404)
                            ELSE [r EXCEPT !.at = "move_select_target",
                                           !.source_phase_id = found[1].phase_id]]
      [] r.at = "move_select_target" ->
           [journeys |-> jt, steps |-> st,
            request |-> IF SelectSeq(pt, LAMBDA p : p.id = r.phase_id) = <<>>
                        THEN Return(r, 404)
                        ELSE [r EXCEPT !.at = "move_select_max_order"]]
      [] r.at = "move_select_max_order" ->
           [journeys |-> jt, steps |-> st,
            request |-> [r EXCEPT !.at = "move_update_step",
                                  !.next_order = next_order(st, r.phase_id)]]
      [] r.at = "move_update_step" ->
           [journeys |-> jt,
            steps |-> update_step_phase(st, r.step_id, r.phase_id, r.next_order),
            request |-> [r EXCEPT !.at = IF /\ ~Falsy(r.source_phase_id)
                                            /\ r.source_phase_id # r.phase_id
                                         THEN "move_select_source_steps"
                                         ELSE "move_select_target_journey"]]
      [] r.at = "move_select_source_steps" ->
           LET ids == steps_in_phase(st, r.source_phase_id)
           IN  [journeys |-> jt, steps |-> st,
                request |-> [r EXCEPT !.at = IF ids = <<>> THEN "move_select_target_journey"
                                             ELSE "move_renumber",
                                      !.remaining = ids, !.index = 1]]
      [] r.at = "move_renumber" ->
           [journeys |-> jt,
            steps |-> update_step_order(st, r.remaining[r.index], r.source_phase_id, r.index),
            request |-> [r EXCEPT !.at = IF r.index = Len(r.remaining)
                                         THEN "move_select_target_journey"
                                         ELSE "move_renumber",
                                  !.index = r.index + 1]]
      [] r.at = "move_select_target_journey" ->
           LET target == SelectSeq(pt, LAMBDA p : p.id = r.phase_id)
               journey_id == IF target = <<>> THEN NULL ELSE target[1].journey_id
               then == IF ~Falsy(r.source_phase_id) /\ r.source_phase_id # r.phase_id
                       THEN "move_select_source_phase" ELSE "returned"
           IN  [journeys |-> jt, steps |-> st,
                request |-> BeginSweep([r EXCEPT !.target_journey_id = journey_id],
                                       journey_id, then)]
      [] r.at = "move_select_source_phase" ->
           LET source == SelectSeq(pt, LAMBDA p : p.id = r.source_phase_id)
           IN  [journeys |-> jt, steps |-> st,
                request |-> IF /\ source # <<>>
                               /\ source[1].journey_id # r.target_journey_id
                            THEN BeginSweep(r, source[1].journey_id, "returned")
                            ELSE Return(r, 200)]

\* The next affected subjourney of delete_step, or the return.
NextAffected(r) == [r EXCEPT !.at = "delete_affected", !.affected = Tail(r.affected)]

\* One store call of delete_step.
delete_call(jt, pt, st, r) ==
    CASE r.at = "delete_select_step" ->
           LET found == SelectSeq(st, LAMBDA x : x.id = r.step_id)
               phase == IF found = <<>> THEN <<>>
                        ELSE SelectSeq(pt, LAMBDA p : p.id = found[1].phase_id)
           IN  [journeys |-> jt, steps |-> st,
                request |-> IF phase = <<>> \/ select_journey(jt, phase[1].journey_id) = <<>>
                            THEN Return(r, 404)
                            ELSE [r EXCEPT !.at = "delete_select_affected",
                                           !.phase_id = found[1].phase_id,
                                           !.journey_id = phase[1].journey_id]]
      [] r.at = "delete_select_affected" ->
           [journeys |-> jt, steps |-> st,
            request |-> [r EXCEPT !.at = "delete_delete_step",
                                  !.affected = affected_subjourney_ids(jt, r.step_id)]]
      [] r.at = "delete_delete_step" ->
           [journeys |-> journeys_on_step_delete(jt, r.step_id),
            steps |-> SelectSeq(st, LAMBDA x : x.id # r.step_id),
            request |-> [r EXCEPT !.at = "delete_select_remaining"]]
      [] r.at = "delete_select_remaining" ->
           LET ids == steps_in_phase(st, r.phase_id)
           IN  [journeys |-> jt, steps |-> st,
                request |-> IF ids = <<>>
                            THEN BeginSweep(r, r.journey_id, "delete_affected")
                            ELSE [r EXCEPT !.at = "delete_renumber",
                                           !.remaining = ids, !.index = 1]]
      [] r.at = "delete_renumber" ->
           [journeys |-> jt,
            steps |-> update_step_order(st, r.remaining[r.index], r.phase_id, r.index),
            request |-> IF r.index = Len(r.remaining)
                        THEN BeginSweep(r, r.journey_id, "delete_affected")
                        ELSE [r EXCEPT !.index = r.index + 1]]
      [] r.at = "delete_affected" ->
           [journeys |-> jt, steps |-> st,
            request |->
                IF r.affected = <<>> THEN Return(r, 200)
                ELSE LET sj == select_journey(jt, Head(r.affected))
                     IN  IF sj = <<>> \/ Falsy(sj[1].parent_step_id) THEN NextAffected(r)
                         ELSE [r EXCEPT !.at = "delete_parent_step",
                                        !.parent_step_id = sj[1].parent_step_id]]
      [] r.at = "delete_parent_step" ->
           LET stepRows == SelectSeq(st, LAMBDA x : x.id = r.parent_step_id)
           IN  [journeys |-> jt, steps |-> st,
                request |-> IF stepRows = <<>> \/ Falsy(stepRows[1].phase_id)
                            THEN NextAffected(r)
                            ELSE [r EXCEPT !.at = "delete_parent_phase",
                                           !.parent_phase_id = stepRows[1].phase_id]]
      [] r.at = "delete_parent_phase" ->
           LET phaseRows == SelectSeq(pt, LAMBDA p : p.id = r.parent_phase_id)
           IN  [journeys |-> jt, steps |-> st,
                request |-> IF phaseRows = <<>> THEN NextAffected(r)
                            ELSE BeginSweep(NextAffected(r), phaseRows[1].journey_id,
                                            "delete_affected")]

\* One store call of reorder_steps.
reorder_call(jt, pt, st, r) ==
    CASE r.at = "reorder_select_phase" ->
           [journeys |-> jt, steps |-> st,
            request |-> IF SelectSeq(pt, LAMBDA p : p.id = r.phase_id) = <<>>
                        THEN Return(r, 404)
                        ELSE IF r.step_ids = <<>> THEN Return(r, 200)
                        ELSE [r EXCEPT !.at = "reorder_check"]]
      [] r.at = "reorder_check" ->
           [journeys |-> jt, steps |-> st,
            request |-> IF Range(r.step_ids) \subseteq valid_ids(st, r.phase_id, r.step_ids)
                        THEN [r EXCEPT !.at = "reorder_update", !.index = 1]
                        ELSE Return(r, 400)]
      [] r.at = "reorder_update" ->
           [journeys |-> jt,
            steps |-> update_step_order(st, r.step_ids[r.index], r.phase_id, r.index),
            request |-> IF r.index = Len(r.step_ids) THEN Return(r, 200)
                        ELSE [r EXCEPT !.index = r.index + 1]]

\* The next store call of a request in flight.
store_call(jt, pt, st, r) ==
    IF r.at \in SweepCalls
    THEN LET out == sweep_call(jt, pt, st, r)
         IN  [journeys |-> out.journeys, steps |-> st, request |-> out.request]
    ELSE CASE r.op = "get_journey_structure" -> structure_call(jt, pt, st, r)
           [] r.op = "move_step_to_phase" -> move_call(jt, pt, st, r)
           [] r.op = "delete_step" -> delete_call(jt, pt, st, r)
           [] r.op = "reorder_steps" -> reorder_call(jt, pt, st, r)

InFlight(r) == r.at \notin {"idle", "returned"}

\* A caller sends a request.
Send(caller, r) ==
    /\ requests[caller].at = "idle"
    /\ requests' = [requests EXCEPT ![caller] = r]
    /\ UNCHANGED <<journeys, phases, steps, uuid, response>>
    /\ UNCHANGED <<subjourney, parent_journey, parent_phases, parent_steps, result, updates>>

\* A request of the kind makes its next store call; its caller gets the
\* answer when it returns.
Advance(caller, op) ==
    LET r == requests[caller]
        out == store_call(journeys, phases, steps, r)
    IN  /\ r.op = op
        /\ InFlight(r)
        /\ journeys' = out.journeys
        /\ steps' = out.steps
        /\ requests' = [requests EXCEPT ![caller] = out.request]
        /\ response' = IF out.request.at = "returned"
                       THEN [op |-> op, status |-> out.request.status, caller |-> caller]
                       ELSE response
        /\ UNCHANGED <<phases, uuid>>
        /\ UNCHANGED <<subjourney, parent_journey, parent_phases, parent_steps, result, updates>>

-----------------------------------------------------------------------------
(* The handlers, one request at a time *)

MaxJourneys == 3

NoResolverCall ==
    /\ subjourney = JourneyRow(NULL, FALSE, NULL, NULL)
    /\ parent_journey = JourneyRow(NULL, FALSE, NULL, NULL)
    /\ parent_phases = <<>>
    /\ parent_steps = <<>>
    /\ result = NoCall
    /\ updates = <<>>

IdleCall ==
    /\ NoResolverCall
    /\ requests = NoRequests

\* The store as scripts/load_mock_data_with_subjourneys.py leaves it: rows
\* inserted directly, subjourneys with a parent_step_id and no continue_step_id.
\* Flat: a top-level journey P1:[S1,S2], P2:[S3] and a subjourney anchored in it.
LoadedFlat(anchor) ==
    /\ journeys = <<JourneyRow(1, FALSE, NULL, NULL), JourneyRow(2, TRUE, anchor, NULL)>>
    /\ phases = <<PhaseRow(1, 1, 1), PhaseRow(2, 1, 2)>>
    /\ steps = <<StepRow(1, 1, 1), StepRow(2, 1, 2), StepRow(3, 2, 1)>>
    /\ uuid = [journeys |-> 2, phases |-> 2, steps |-> 3]

\* Nested: a top-level journey P1:[S1], its subjourney P2:[S2,S3], P3:[S4]
\* anchored at S1, and a nested subjourney anchored in that one.
LoadedNested(anchor) ==
    /\ journeys = <<JourneyRow(1, FALSE, NULL, NULL), JourneyRow(2, TRUE, 1, NULL),
                    JourneyRow(3, TRUE, anchor, NULL)>>
    /\ phases = <<PhaseRow(1, 1, 1), PhaseRow(2, 2, 1), PhaseRow(3, 2, 2)>>
    /\ steps = <<StepRow(1, 1, 1), StepRow(2, 2, 1), StepRow(3, 2, 2), StepRow(4, 3, 1)>>
    /\ uuid = [journeys |-> 3, phases |-> 3, steps |-> 4]

Init ==
    /\ \/ \E anchor \in 1..3 : LoadedFlat(anchor)
       \/ \E anchor \in 2..4 : LoadedNested(anchor)
    /\ response = NoResponse
    /\ IdleCall

\* Sequences without repetition over a set of ids.
RECURSIVE InjectiveSeqs(_)
InjectiveSeqs(S) ==
    {<<>>} \cup UNION { {<<x>> \o t : t \in InjectiveSeqs(S \ {x})} : x \in S }

StepsOfPhase(phase_id) == {steps[i].id : i \in {k \in 1..Len(steps) : steps[k].phase_id = phase_id}}

\* Ids that are no steps of the phase: the steps of other phases and an id
\* that names no step.
OtherSteps(phase_id) == (Ids(steps) \cup {uuid.steps + 1}) \ StepsOfPhase(phase_id)

\* The least and the greatest of a set of ids.
Ends(S) == {x \in S : (\A y \in S : x <= y) \/ (\A y \in S : y <= x)}

\* Malformed lists: an id that does not belong, alone, after or before one
\* that does.
Malformed(own, other) ==
    {<<f>> : f \in Ends(other)}
        \cup {<<v, f>> : v \in own, f \in Ends(other)}
        \cup {<<f, v>> : v \in own, f \in Ends(other)}

\* Reorder requests: the steps of the phase in any order, the empty list, a
\* list of one step of the phase, and the malformed lists.
ReorderRequests(phase_id) ==
    {s \in InjectiveSeqs(StepsOfPhase(phase_id)) :
        Len(s) \in {0, 1, Cardinality(StepsOfPhase(phase_id))}}
        \cup Malformed(StepsOfPhase(phase_id), OtherSteps(phase_id))

PhasesOfJourney(journey_id) ==
    {phases[i].id : i \in {k \in 1..Len(phases) : phases[k].journey_id = journey_id}}

\* Ids that are no phases of the journey: the phases of other journeys and an
\* id that names no phase.
OtherPhases(journey_id) ==
    (Ids(phases) \cup {uuid.phases + 1}) \ PhasesOfJourney(journey_id)

\* Reorder requests: the phases of the journey in any order, the empty list, a
\* list of one phase of the journey, and the malformed lists.
PhaseReorderRequests(journey_id) ==
    {s \in InjectiveSeqs(PhasesOfJourney(journey_id)) :
        Len(s) \in {0, 1, Cardinality(PhasesOfJourney(journey_id))}}
        \cup Malformed(PhasesOfJourney(journey_id), OtherPhases(journey_id))

CreateJourney ==
    /\ Len(journeys) < MaxJourneys
    /\ \/ create_journey(FALSE, NULL, NULL)
       \/ \E p \in 1..(uuid.steps + 1) : \E c \in {NULL, p} :
              create_journey(TRUE, p, c)
    /\ UNCHANGED callVars

ReorderSteps ==
    /\ \E phase_id \in 1..(uuid.phases + 1) :
          \E step_ids \in ReorderRequests(phase_id) : reorder_steps(phase_id, step_ids)
    /\ UNCHANGED callVars

ReorderPhases ==
    /\ \E journey_id \in 1..(uuid.journeys + 1) :
          \E phase_ids \in PhaseReorderRequests(journey_id) :
              reorder_phases(journey_id, phase_ids)
    /\ UNCHANGED callVars

GetJourneyStructure ==
    /\ \E journey_id \in 1..(uuid.journeys + 1), include_subjourneys \in BOOLEAN :
          get_journey_structure(journey_id, include_subjourneys)
    /\ UNCHANGED callVars

ValidateProject ==
    /\ validate_and_fix_continue_step_ids
    /\ UNCHANGED callVars

Next ==
    \/ CreateJourney
    \/ ReorderSteps
    \/ GetJourneyStructure
    \/ ValidateProject

Spec == Init /\ [][Next]_vars

MaxOrder == 3

\* The loaded store when the subjourney has a phase of its own, still empty:
\* a top-level journey P1:[S1,S2], P2:[S3] and its subjourney with phase P3.
LoadedWithSubPhase(anchor) ==
    /\ journeys = <<JourneyRow(1, FALSE, NULL, NULL), JourneyRow(2, TRUE, anchor, NULL)>>
    /\ phases = <<PhaseRow(1, 1, 1), PhaseRow(2, 1, 2), PhaseRow(3, 2, 1)>>
    /\ steps = <<StepRow(1, 1, 1), StepRow(2, 1, 2), StepRow(3, 2, 1)>>
    /\ uuid = [journeys |-> 2, phases |-> 3, steps |-> 3]

MoveInit ==
    /\ \E anchor \in 1..3 : LoadedWithSubPhase(anchor)
    /\ response = NoResponse
    /\ IdleCall

\* The sequence_order a move gives the step stays within the bound.
MoveStep ==
    /\ \E step_id \in 1..(uuid.steps + 1), phase_id \in 1..(uuid.phases + 1) :
          /\ next_order(steps, phase_id) <= MaxOrder
          /\ move_step_to_phase(step_id, phase_id)
    /\ UNCHANGED callVars

\* The step move and the repairs.
MoveNext ==
    \/ MoveStep
    \/ GetJourneyStructure
    \/ ValidateProject

SpecMove == MoveInit /\ [][MoveNext]_vars

DeleteStep ==
    /\ \E step_id \in 1..(uuid.steps + 1) : delete_step(step_id)
    /\ UNCHANGED callVars

DeletePhase ==
    /\ \E phase_id \in 1..(uuid.phases + 1) : delete_phase(phase_id)
    /\ UNCHANGED callVars

\* The delete handlers and the repairs, on the loaded store.
DeleteNext ==
    \/ DeleteStep
    \/ DeletePhase
    \/ GetJourneyStructure
    \/ ValidateProject

SpecDelete == Init /\ [][DeleteNext]_vars

\* The handlers that renumber a phase, with the step reorder that leaves
\* equal sequence_orders behind.
OrderInit ==
    /\ LoadedWithSubPhase(2)
    /\ response = NoResponse
    /\ IdleCall

\* reorder_steps with a list of one step of the phase: the step gets
\* sequence_order 1, whatever the others have.
ReorderOneStep ==
    /\ \E phase_id \in 1..uuid.phases : \E step_id \in StepsOfPhase(phase_id) :
          reorder_steps(phase_id, <<step_id>>)
    /\ UNCHANGED callVars

OrderNext ==
    \/ MoveStep
    \/ DeleteStep
    \/ ReorderOneStep

SpecOrder == OrderInit /\ [][OrderNext]_vars

\* The longest id list of a reorder request that may repeat ids.
MaxListLen == 3

\* Every list over a set of ids, up to MaxListLen long: ids may repeat
\* (step_ids: List[str]).
ListsOver(S) == UNION {[1..n -> S] : n \in 0..MaxListLen}

ReorderStepsAnyList ==
    /\ \E phase_id \in 1..uuid.phases :
          \E step_ids \in ListsOver(StepsOfPhase(phase_id)) :
              reorder_steps(phase_id, step_ids)
    /\ UNCHANGED callVars

ReorderPhasesAnyList ==
    /\ \E journey_id \in 1..uuid.journeys :
          \E phase_ids \in ListsOver(PhasesOfJourney(journey_id)) :
              reorder_phases(journey_id, phase_ids)
    /\ UNCHANGED callVars

\* The reorder handlers under every list of ids that belong to the target.
ReorderAnyNext ==
    \/ ReorderStepsAnyList
    \/ ReorderPhasesAnyList

SpecReorderAny == Init /\ [][ReorderAnyNext]_vars

\* POST /journeys for a subjourney whose request names a continue_step_id:
\* any step of the store, at any anchor.
CreateExplicitSubjourney ==
    /\ Len(journeys) < MaxJourneys
    /\ \E p \in 1..uuid.steps, c \in 1..uuid.steps : create_journey(TRUE, p, c)
    /\ UNCHANGED callVars

\* Creation with an explicit pointer and the repairs, on the loaded store.
ExplicitNext ==
    \/ CreateExplicitSubjourney
    \/ GetJourneyStructure
    \/ ValidateProject

SpecExplicit == Init /\ [][ExplicitNext]_vars

\* The ids create_step has issued stay below this.
MaxSteps == 6

CreateStep ==
    /\ uuid.steps < MaxSteps
    /\ \E phase_id \in 1..(uuid.phases + 1), sequence_order \in 1..MaxOrder :
          create_step(phase_id, sequence_order)
    /\ UNCHANGED callVars

\* Step creation, phase deletion and the repairs, on the loaded store.
StructureNext ==
    \/ CreateStep
    \/ DeletePhase
    \/ GetJourneyStructure
    \/ ValidateProject

SpecStructure == Init /\ [][StructureNext]_vars

\* The ids create_journey has issued stay below this.
MaxIssued == 4

\* POST /journeys with any JourneyCreate: is_subjourney, parent_step_id and
\* continue_step_id are independent fields of the request.
CreateAnyJourney ==
    /\ Len(journeys) < MaxJourneys
    /\ uuid.journeys < MaxIssued
    /\ \E is_subjourney \in BOOLEAN :
          \E p \in {NULL} \cup 1..(uuid.steps + 1) : \E c \in {NULL, p} :
              create_journey(is_subjourney, p, c)
    /\ UNCHANGED callVars

UpdateJourney ==
    /\ \E journey_id \in 1..(uuid.journeys + 1) : update_journey(journey_id)
    /\ UNCHANGED callVars

DeleteJourney ==
    /\ \E journey_id \in 1..(uuid.journeys + 1) : delete_journey(journey_id)
    /\ UNCHANGED callVars

\* The journey handlers and the repairs, on the loaded store.
JourneysNext ==
    \/ CreateAnyJourney
    \/ UpdateJourney
    \/ DeleteJourney
    \/ GetJourneyStructure
    \/ ValidateProject

SpecJourneys == Init /\ [][JourneysNext]_vars

\* The loaded store with two subjourneys in one top-level journey
\* P1:[S1,S2], P2:[S3].
LoadedSiblings(anchor, other) ==
    /\ journeys = <<JourneyRow(1, FALSE, NULL, NULL), JourneyRow(2, TRUE, anchor, NULL),
                    JourneyRow(3, TRUE, other, NULL)>>
    /\ phases = <<PhaseRow(1, 1, 1), PhaseRow(2, 1, 2)>>
    /\ steps = <<StepRow(1, 1, 1), StepRow(2, 1, 2), StepRow(3, 2, 1)>>
    /\ uuid = [journeys |-> 3, phases |-> 2, steps |-> 3]

FailureInit ==
    /\ \E anchor \in 1..3, other \in 1..3 : LoadedSiblings(anchor, other)
    /\ response = NoResponse
    /\ IdleCall

ValidateProjectStoreFailing ==
    /\ \E failing \in SUBSET Ids(select_subjourneys(journeys, steps)) :
          validate_and_fix_with_store_failures(failing)
    /\ UNCHANGED callVars

\* The project validation over a store whose updates may fail, and the step
\* reorder that makes pointers stale.
FailureNext ==
    \/ ValidateProjectStoreFailing
    \/ ReorderSteps

SpecFailure == FailureInit /\ [][FailureNext]_vars

\* The reorder handlers and the repairs, on the loaded store.
ReorderNext ==
    \/ ReorderSteps
    \/ ReorderPhases
    \/ GetJourneyStructure
    \/ ValidateProject

SpecReorder == Init /\ [][ReorderNext]_vars

-----------------------------------------------------------------------------
(* Requests served at once *)

\* Each caller sends one request to the loaded
\* store; the requests run to their return one store call at a time.
NoneInFlight ==
    /\ NoResolverCall
    /\ requests = [caller \in Callers |-> Idle]

AllReturned == \A caller \in Callers : requests[caller].at = "returned"

SendSweep ==
    \E caller \in Callers :
        Send(caller, BeginSweep([Idle EXCEPT !.op = "_update_continue_step_ids_for_journey",
                                             !.journey_id = 1],
                                1, "returned"))

SendStructureRead ==
    \E caller \in Callers, journey_id \in 1..uuid.journeys :
        Send(caller, [Idle EXCEPT !.op = "get_journey_structure",
                                  !.at = "structure_select_journey",
                                  !.journey_id = journey_id])

SendMove ==
    \E caller \in Callers, step_id \in 1..uuid.steps, phase_id \in 1..uuid.phases :
        Send(caller, [Idle EXCEPT !.op = "move_step_to_phase", !.at = "move_select_step",
                                  !.step_id = step_id, !.phase_id = phase_id])

SendDelete ==
    \E caller \in Callers, step_id \in 1..uuid.steps :
        Send(caller, [Idle EXCEPT !.op = "delete_step", !.at = "delete_select_step",
                                  !.step_id = step_id])

SendReorder ==
    \E caller \in Callers, phase_id \in 1..uuid.phases :
        \E step_ids \in InjectiveSeqs(Range(steps_in_phase(steps, phase_id))) :
            Send(caller, [Idle EXCEPT !.op = "reorder_steps", !.at = "reorder_select_phase",
                                      !.phase_id = phase_id, !.step_ids = step_ids])

AdvanceSweep == \E caller \in Callers : Advance(caller, "_update_continue_step_ids_for_journey")

AdvanceStructureRead == \E caller \in Callers : Advance(caller, "get_journey_structure")

AdvanceMove == \E caller \in Callers : Advance(caller, "move_step_to_phase")

AdvanceDelete == \E caller \in Callers : Advance(caller, "delete_step")

AdvanceReorder == \E caller \in Callers : Advance(caller, "reorder_steps")

\* Sweeps and structure reads at once, nothing changing the structure.
SweepsInit ==
    /\ \E anchor \in 1..3, other \in 1..3 : LoadedSiblings(anchor, other)
    /\ response = NoResponse
    /\ NoneInFlight

SweepsNext ==
    \/ SendSweep
    \/ SendStructureRead
    \/ AdvanceSweep
    \/ AdvanceStructureRead

SpecSweeps == SweepsInit /\ [][SweepsNext]_vars

\* A structure read once every request has returned.
ReadWhenQuiet ==
    /\ AllReturned
    /\ GetJourneyStructure

\* Structural mutations and structure reads at once.
RaceInit ==
    /\ \E anchor \in 1..3 : LoadedFlat(anchor)
    /\ response = NoResponse
    /\ NoneInFlight

RaceNext ==
    \/ SendMove
    \/ SendDelete
    \/ SendReorder
    \/ SendStructureRead
    \/ AdvanceMove
    \/ AdvanceDelete
    \/ AdvanceReorder
    \/ AdvanceStructureRead
    \/ ReadWhenQuiet

SpecRace == RaceInit /\ [][RaceNext]_vars

-----------------------------------------------------------------------------
(* The canonical order, stated without sorting: a step of a listed phase     *)
(* comes before another when its phase has the smaller sequence_order, or    *)
(* the same phase order and an earlier phase row, or the same phase and the  *)
(* smaller step sequence_order, or all equal and the earlier step row.       *)

ComputeCalled == result.fn = "compute"

\* Row numbers of the steps that lie in one of the listed phases.
ListedSteps ==
    {i \in 1..Len(parent_steps) :
        \E j \in 1..Len(parent_phases) : parent_phases[j].id = parent_steps[i].phase_id}

PhaseRowOf(i) ==
    CHOOSE j \in 1..Len(parent_phases) : parent_phases[j].id = parent_steps[i].phase_id

ComesBefore(i, k) ==
    LET pi == PhaseRowOf(i)
        pk == PhaseRowOf(k)
        oi == parent_phases[pi].sequence_order
        ok == parent_phases[pk].sequence_order
        si == parent_steps[i].sequence_order
        sk == parent_steps[k].sequence_order
    IN  \/ oi < ok
        \/ oi = ok /\ pi < pk
        \/ pi = pk /\ si < sk
        \/ pi = pk /\ si = sk /\ i < k

\* Row numbers of the listed steps carrying the subjourney's parent_step_id.
Anchors == {i \in ListedSteps : parent_steps[i].id = subjourney.parent_step_id}

Following(i) == {k \in ListedSteps : ComesBefore(i, k)}

NextAfter(i) == CHOOSE k \in Following(i) : \A m \in Following(i) \ {k} : ComesBefore(k, m)

\* C1: when the anchor step is found in the parent's canonical step order and
\* is not its last step, the computed continuation is the id of the step that
\* immediately follows it in that order, across a phase boundary too.
C1_NextStep ==
    ComputeCalled =>
        \A i \in Anchors :
            Following(i) # {} => result.value = parent_steps[NextAfter(i)].id

\* Anchor is the last step of its phase and the continuation is the first step
\* of the following phase, with a third step before the anchor.
C1_Witness ==
    /\ ComputeCalled
    /\ Len(parent_steps) = 3
    /\ \E i \in Anchors :
          /\ Following(i) # {}
          /\ \E h \in ListedSteps : ComesBefore(h, i)
          /\ parent_steps[NextAfter(i)].phase_id # parent_steps[i].phase_id
          /\ result.value = parent_steps[NextAfter(i)].id

\* C2: when the anchor is the last step of the canonical order and the parent
\* journey is top-level, the computed continuation is null.
C2_LastTopLevelNull ==
    ComputeCalled =>
        \A i \in Anchors :
            (Following(i) = {} /\ ~parent_journey.is_subjourney) => result.value = NULL

C2_Witness ==
    /\ ComputeCalled
    /\ ~parent_journey.is_subjourney
    /\ Cardinality(ListedSteps) >= 2
    /\ \E i \in Anchors : Following(i) = {}
    /\ result.value = NULL

\* C3: when the anchor is the last step of the canonical order and the parent
\* journey is itself a subjourney, the computed continuation is the anchor's
\* own id (loop-back).
C3_LastLoopBack ==
    ComputeCalled =>
        \A i \in Anchors :
            (Following(i) = {} /\ parent_journey.is_subjourney)
                => result.value = subjourney.parent_step_id

C3_Witness ==
    /\ ComputeCalled
    /\ parent_journey.is_subjourney
    /\ Cardinality(ListedSteps) >= 2
    /\ \E i \in Anchors : Following(i) = {}
    /\ result.value = subjourney.parent_step_id
    /\ result.value # NULL

\* C4: with no parent_step_id, or with a parent_step_id that is not in the
\* parent's ordered step sequence, the computed continuation is null, for
\* every parent structure (no phases and no steps included).
C4_MissingAnchorNull ==
    ComputeCalled =>
        ((Falsy(subjourney.parent_step_id) \/ Anchors = {}) => result.value = NULL)

\* The anchor step row exists but its phase is not a phase of the parent any
\* more, and the parent is a subjourney with other steps.
C4_Witness ==
    /\ ComputeCalled
    /\ parent_journey.is_subjourney
    /\ ~Falsy(subjourney.parent_step_id)
    /\ \E i \in 1..Len(parent_steps) : parent_steps[i].id = subjourney.parent_step_id
    /\ Anchors = {}
    /\ ListedSteps # {}
    /\ result.value = NULL

UniqueOrders ==
    /\ \A i, j \in 1..Len(parent_phases) :
          i # j => parent_phases[i].sequence_order # parent_phases[j].sequence_order
    /\ \A i, j \in 1..Len(parent_steps) :
          (i # j /\ parent_steps[i].phase_id = parent_steps[j].phase_id)
              => parent_steps[i].sequence_order # parent_steps[j].sequence_order

PhaseOrderOf(stepRow) ==
    LET j == CHOOSE j \in 1..Len(parent_phases) : parent_phases[j].id = stepRow.phase_id
    IN  parent_phases[j].sequence_order

Reverse(s) == [i \in 1..Len(s) |-> s[Len(s) + 1 - i]]

\* C5: with unique sequence_orders the canonical order holds each step of the
\* listed phases exactly once, ascends by (phase sequence_order, step
\* sequence_order), and is the same whatever order the rows come in.
C5_CanonicalOrder ==
    UniqueOrders =>
        LET all == all_steps_sorted(parent_phases, parent_steps)
        IN  /\ Range(all) = {parent_steps[i] : i \in ListedSteps}
            /\ Len(all) = Cardinality(ListedSteps)
            /\ \A n \in 1..(Len(all) - 1) :
                  \/ PhaseOrderOf(all[n]) < PhaseOrderOf(all[n + 1])
                  \/ /\ all[n].phase_id = all[n + 1].phase_id
                     /\ all[n].sequence_order < all[n + 1].sequence_order
            /\ all = all_steps_sorted(Reverse(parent_phases), Reverse(parent_steps))

\* Three steps over two phases whose rows come in another order than the
\* canonical one, and a continuation computed from them.
C5_Witness ==
    /\ ComputeCalled
    /\ UniqueOrders
    /\ Len(parent_phases) = 2
    /\ Cardinality(ListedSteps) = 3
    /\ all_steps_sorted(parent_phases, parent_steps) # parent_steps
    /\ parent_phases[1].sequence_order > parent_phases[2].sequence_order
    /\ result.value # NULL

-----------------------------------------------------------------------------
(* The validator *)

ValidateCalled == result.fn = "validate"

\* The continuation the parent's current order gives the subjourney, stated
\* with the order above and not with the code's sort.
ExpectedContinuation ==
    IF Falsy(subjourney.parent_step_id) \/ Anchors = {} THEN NULL
    ELSE LET i == CHOOSE i \in Anchors : TRUE
         IN  IF Following(i) # {} THEN parent_steps[NextAfter(i)].id
             ELSE IF parent_journey.is_subjourney THEN subjourney.parent_step_id
             ELSE NULL

\* The journeys table as it was loaded before the call.
TableBefore == <<parent_journey, subjourney, Sibling(subjourney)>>

\* C6: when the computed continuation equals the stored one, None and the
\* other falsy value counting as equal, the validator executes no update,
\* leaves every journeys row as it was and returns False.
C6_EqualNoWrite ==
    ValidateCalled =>
        (StrOrNone(ExpectedContinuation) = StrOrNone(subjourney.continue_step_id)
            => /\ updates = <<>>
               /\ journeys = TableBefore
               /\ result.value = FALSE)

\* The stored value is the empty string and the computed one is None.
C6_Witness ==
    /\ ValidateCalled
    /\ subjourney.continue_step_id = EMPTY
    /\ ExpectedContinuation = NULL
    /\ Anchors # {}
    /\ result.value = FALSE
    /\ journeys = TableBefore

\* C7: when the computed continuation differs from the stored one, the
\* validator executes one update of that subjourney's row with the computed
\* value (null included), returns True, and afterwards the stored
\* continue_step_id is the computed value and every other row is as before,
\* whether or not the value stored before names a step of the parent.
C7_MismatchFixed ==
    ValidateCalled =>
        (StrOrNone(ExpectedContinuation) # StrOrNone(subjourney.continue_step_id)
            => /\ result.value = TRUE
               /\ updates = <<UpdateStatement(subjourney.id, ExpectedContinuation)>>
               /\ journeys[2] = [subjourney EXCEPT
                                    !.continue_step_id = ExpectedContinuation]
               /\ journeys[1] = parent_journey
               /\ journeys[3] = Sibling(subjourney))

\* The stored value names a step that still exists in the parent, and null is
\* written over it.
C7_Witness ==
    /\ ValidateCalled
    /\ step_exists(parent_steps, subjourney.continue_step_id)
    /\ Anchors # {}
    /\ ExpectedContinuation = NULL
    /\ result.value = TRUE
    /\ journeys[2].continue_step_id = NULL
    /\ journeys[3].continue_step_id = subjourney.continue_step_id

-----------------------------------------------------------------------------
(* The store's canonical step order, stated on the tables: a step comes      *)
(* before another of the same journey when its phase comes first (by          *)
(* sequence_order, then row order) or, in the same phase, when it comes first *)
(* (by sequence_order, then row order).                                       *)

PhaseOf(i) == CHOOSE q \in 1..Len(phases) : phases[q].id = steps[i].phase_id

JourneyOf(i) == phases[PhaseOf(i)].journey_id

StepsOfJourney(journey_id) == {i \in 1..Len(steps) : JourneyOf(i) = journey_id}

Earlier(a, ra, b, rb) == a < b \/ (a = b /\ ra < rb)

StoreBefore(i, k) ==
    LET qi == PhaseOf(i)
        qk == PhaseOf(k)
    IN  \/ Earlier(phases[qi].sequence_order, qi, phases[qk].sequence_order, qk)
        \/ qi = qk /\ Earlier(steps[i].sequence_order, i, steps[k].sequence_order, k)

AnchorOf(sj) == CHOOSE i \in 1..Len(steps) : steps[i].id = sj.parent_step_id

\* The subjourney is anchored at a step of the journey.
AnchoredIn(sj, journey_id) ==
    /\ sj.is_subjourney
    /\ \E i \in StepsOfJourney(journey_id) : steps[i].id = sj.parent_step_id

\* The continuation of an anchored subjourney under the store's current order.
CurrentContinuation(sj) ==
    LET i == AnchorOf(sj)
        after == {k \in StepsOfJourney(JourneyOf(i)) : StoreBefore(i, k)}
        parent == CHOOSE n \in 1..Len(journeys) : journeys[n].id = JourneyOf(i)
    IN  IF after # {}
        THEN steps[CHOOSE k \in after : \A m \in after \ {k} : StoreBefore(k, m)].id
        ELSE IF journeys[parent].is_subjourney THEN sj.parent_step_id
        ELSE NULL

SweepTwice(journey_id) ==
    LET first == _update_continue_step_ids_for_journey(journeys, phases, steps, journey_id)
        second == _update_continue_step_ids_for_journey(
                      first.journeys, phases, steps, journey_id)
    IN  /\ second.fixed_count = 0
        /\ second.updates = <<>>
        /\ second.journeys = first.journeys

ValidateTwice ==
    LET first == project_validation(journeys, phases, steps)
        second == project_validation(first.journeys, phases, steps)
    IN  /\ second.fixed_count = 0
        /\ second.updates = <<>>
        /\ second.journeys = first.journeys
        /\ second.total_subjourneys = first.total_subjourneys

ProjectValidated == response.op = "validate_and_fix_continue_step_ids"

\* C8: in every reachable store state, the journey-scoped sweep of any journey
\* run twice in a row, and the project validation run twice in a row, fix
\* nothing and write nothing the second time; and right after the project
\* validation endpoint has answered, another run reports fixed_count = 0.
C8_RepairIdempotent ==
    /\ \A journey_id \in 1..(uuid.journeys + 1) : SweepTwice(journey_id)
    /\ ValidateTwice
    /\ ProjectValidated =>
          LET again == project_validation(journeys, phases, steps)
          IN  again.fixed_count = 0 /\ again.updates = <<>>

\* The endpoint has just fixed a stale pointer.
C8_Witness ==
    /\ ProjectValidated
    /\ response.fixed_count >= 1
    /\ \E n \in 1..Len(journeys) : journeys[n].continue_step_id # NULL

StructureRead ==
    /\ response.op = "get_journey_structure"
    /\ response.status = 200
    /\ response.include_subjourneys

Returned(sj) ==
    {m \in 1..Len(response.subjourneys) : response.subjourneys[m].id = sj.id}

ReorderSucceeded ==
    /\ response.op = "reorder_steps"
    /\ response.status = 200

ReorderedJourney ==
    phases[CHOOSE q \in 1..Len(phases) : phases[q].id = response.phase_id].journey_id

\* C10: after reorder_steps on a phase of journey J has returned success,
\* every subjourney anchored at a step of J has the stored continue_step_id
\* that J's new step order gives it.
C10_ReorderRepairs ==
    ReorderSucceeded =>
        \A n \in 1..Len(journeys) :
            AnchoredIn(journeys[n], ReorderedJourney) =>
                journeys[n].continue_step_id = CurrentContinuation(journeys[n])

PhaseReorderSucceeded ==
    /\ response.op = "reorder_phases"
    /\ response.status = 200

\* C11: after reorder_phases on journey J has returned success, every
\* subjourney anchored at a step of J has the stored continue_step_id that
\* J's new phase order gives it.
C11_PhaseReorderRepairs ==
    PhaseReorderSucceeded =>
        \A n \in 1..Len(journeys) :
            AnchoredIn(journeys[n], response.journey_id) =>
                journeys[n].continue_step_id = CurrentContinuation(journeys[n])

MoveSucceeded ==
    /\ response.op = "move_step_to_phase"
    /\ response.status = 200

JourneyOfPhase(phase_id) ==
    phases[CHOOSE q \in 1..Len(phases) : phases[q].id = phase_id].journey_id

\* C12: after move_step_to_phase has returned success, every subjourney
\* anchored at a step of the target phase's journey, and every subjourney
\* anchored at a step of the source phase's journey, has the stored
\* continue_step_id that the order after the move gives it.
C12_MoveRepairs ==
    MoveSucceeded =>
        \A n \in 1..Len(journeys) :
            (\/ AnchoredIn(journeys[n], JourneyOfPhase(response.phase_id))
             \/ AnchoredIn(journeys[n], JourneyOfPhase(response.source_phase_id)))
                => journeys[n].continue_step_id = CurrentContinuation(journeys[n])

\* A step has left the journey that anchors the subjourney for a phase of
\* another journey, and the subjourney points at its anchor's new successor.
C12_Witness ==
    /\ MoveSucceeded
    /\ JourneyOfPhase(response.phase_id) # JourneyOfPhase(response.source_phase_id)
    /\ \E n \in 1..Len(journeys) :
          /\ AnchoredIn(journeys[n], JourneyOfPhase(response.source_phase_id))
          /\ journeys[n].parent_step_id # response.step_id
          /\ journeys[n].continue_step_id # NULL

\* The step after a step in its journey's order, NULL when it is the last.
Successor(step_id) ==
    LET i == CHOOSE k \in 1..Len(steps) : steps[k].id = step_id
        after == {k \in StepsOfJourney(JourneyOf(i)) : StoreBefore(i, k)}
    IN  IF after = {} THEN NULL
        ELSE steps[CHOOSE k \in after : \A m \in after \ {k} : StoreBefore(k, m)].id

\* This step is a successful delete_step of a step of the store.
StepDeleted ==
    /\ response'.op = "delete_step"
    /\ response'.status = 200
    /\ response'.step_id \in Ids(steps)
    /\ response'.step_id \notin Ids(steps')

\* C13: when delete_step of step S returns success, every subjourney whose
\* stored continue_step_id was S has it recomputed to the step that followed S
\* in the parent's order (with no such step: to null, or to its anchor when
\* the parent is a subjourney), and no subjourney is left with
\* continue_step_id = S.
C13_DeletionCascade ==
    [][StepDeleted =>
        /\ \A n \in 1..Len(journeys) :
              (journeys[n].is_subjourney /\ journeys[n].continue_step_id = response'.step_id)
                  => IF Successor(response'.step_id) # NULL
                     THEN journeys'[n].continue_step_id = Successor(response'.step_id)
                     ELSE journeys'[n].continue_step_id
                              \in {NULL, journeys[n].parent_step_id}
        /\ \A n \in 1..Len(journeys') :
              journeys'[n].is_subjourney
                  => journeys'[n].continue_step_id # response'.step_id]_vars

\* The subjourney's anchor is no step of the store any more.
Orphaned(sj) ==
    /\ sj.is_subjourney
    /\ ~Falsy(sj.parent_step_id)
    /\ sj.parent_step_id \notin Ids(steps)

StepDeleteSucceeded ==
    /\ response.op = "delete_step"
    /\ response.status = 200

\* C14: a subjourney whose anchor step is gone has a null continue_step_id
\* once a repair has run after the anchor disappeared: when delete_step of
\* its anchor has returned (the sweep of the anchor's journey has run), and
\* when the project validation has returned.
C14_MissingAnchorRepaired ==
    /\ StepDeleteSucceeded =>
          \A n \in 1..Len(journeys) :
              (journeys[n].is_subjourney /\ journeys[n].parent_step_id = response.step_id)
                  => journeys[n].continue_step_id = NULL
    /\ ProjectValidated =>
          \A n \in 1..Len(journeys) :
              Orphaned(journeys[n]) => journeys[n].continue_step_id = NULL

\* C15: after the project validation has returned, every subjourney anchored
\* at a step of any journey of the project, top-level or itself a
\* subjourney, has the stored continue_step_id that its parent journey's
\* current order gives it.
C15_ValidationEveryDepth ==
    ProjectValidated =>
        \A n \in 1..Len(journeys) :
            \A m \in 1..Len(journeys) :
                AnchoredIn(journeys[n], journeys[m].id) =>
                    journeys[n].continue_step_id = CurrentContinuation(journeys[n])

\* The subjourneys anchored at a step of a journey of the project.
AnchoredSubjourneys ==
    {n \in 1..Len(journeys) :
        \E m \in 1..Len(journeys) : AnchoredIn(journeys[n], journeys[m].id)}

\* Those whose stored continue_step_id is not the one the current order gives.
StaleSubjourneys ==
    {n \in AnchoredSubjourneys :
        StrOrNone(journeys[n].continue_step_id)
            # StrOrNone(CurrentContinuation(journeys[n]))}

\* C16: the project validation reports as total_subjourneys the number of
\* subjourneys anchored in the journeys of the project and as fixed_count the
\* number of those whose stored continue_step_id differed from the computed
\* one before the run, so that 0 <= fixed_count <= total_subjourneys.
C16_ValidationReport ==
    [][response'.op = "validate_and_fix_continue_step_ids" =>
        /\ response'.total_subjourneys = Cardinality(AnchoredSubjourneys)
        /\ response'.fixed_count = Cardinality(StaleSubjourneys)
        /\ 0 <= response'.fixed_count
        /\ response'.fixed_count <= response'.total_subjourneys]_vars

\* create_journey has just answered a request for a subjourney with a
\* parent_step_id.
SubjourneyCreated ==
    /\ response.op = "create_journey"
    /\ response.request.is_subjourney
    /\ ~Falsy(response.request.parent_step_id)

\* The stored row of the journey just created.
CreatedRow == journeys[CHOOSE n \in 1..Len(journeys) : journeys[n].id = response.journey.id]

\* The next request is a structure read, with subjourneys, of the journey
\* that anchors the journey just created.
ParentReadNext ==
    /\ response'.op = "get_journey_structure"
    /\ response'.status = 200
    /\ response'.include_subjourneys
    /\ AnchoredIn(CreatedRow, response'.journey_id)

\* C17: create_journey for a subjourney with a parent_step_id stores the
\* continue_step_id of the request when it gives one, and otherwise the
\* continuation its anchor has in the parent's order at that time (null
\* when the anchor is no step of the store); created without one, a
\* following structure read of the parent shows the value stored.
C17_Creation ==
    [][SubjourneyCreated =>
        /\ IF ~Falsy(response.request.continue_step_id)
           THEN CreatedRow.continue_step_id = response.request.continue_step_id
           ELSE IF \E m \in 1..Len(journeys) : AnchoredIn(CreatedRow, journeys[m].id)
           THEN CreatedRow.continue_step_id = CurrentContinuation(CreatedRow)
           ELSE CreatedRow.continue_step_id = NULL
        /\ (Falsy(response.request.continue_step_id) /\ ParentReadNext) =>
              \E m \in 1..Len(response'.subjourneys) :
                  /\ response'.subjourneys[m].id = CreatedRow.id
                  /\ response'.subjourneys[m].continue_step_id
                         = CreatedRow.continue_step_id]_vars

\* In the loaded journey P1:[S1,S2], P2:[S3], a subjourney anchored at S2 has
\* just been created without a continue_step_id, and S3 is stored.
C17_Witness ==
    /\ phases = <<PhaseRow(1, 1, 1), PhaseRow(2, 1, 2)>>
    /\ steps = <<StepRow(1, 1, 1), StepRow(2, 1, 2), StepRow(3, 2, 1)>>
    /\ SubjourneyCreated
    /\ response.request.parent_step_id = 2
    /\ response.request.continue_step_id = NULL
    /\ CreatedRow = JourneyRow(3, TRUE, 2, 3)

ClientError == {400, 404}

\* This step answers a reorder_steps request whose list names an id that is
\* no step of the target phase.
MalformedStepReorder ==
    /\ response'.op = "reorder_steps"
    /\ \E i \in 1..Len(response'.step_ids) :
          response'.step_ids[i] \notin StepsOfPhase(response'.phase_id)

\* This step answers a reorder_phases request whose list names an id that is
\* no phase of the target journey.
MalformedPhaseReorder ==
    /\ response'.op = "reorder_phases"
    /\ \E i \in 1..Len(response'.phase_ids) :
          response'.phase_ids[i] \notin PhasesOfJourney(response'.journey_id)

\* C18: reorder_steps (reorder_phases) called with a list that names an id
\* not belonging to the target phase (journey) answers with a client error
\* and leaves every row of the store, so every sequence_order and every
\* continue_step_id, as it was.
C18_MalformedReorderRejected ==
    [][(MalformedStepReorder \/ MalformedPhaseReorder) =>
        /\ response'.status \in ClientError
        /\ UNCHANGED <<journeys, phases, steps>>]_vars

\* A list of a step of the phase and a step of another phase has been
\* rejected in a store that holds a pointer.
C18_Witness ==
    /\ response.op = "reorder_steps"
    /\ response.status = 400
    /\ Len(response.step_ids) = 2
    /\ response.step_ids[1] \in StepsOfPhase(response.phase_id)
    /\ response.step_ids[2] \in Ids(steps)
    /\ \E n \in 1..Len(journeys) : journeys[n].continue_step_id # NULL

\* The project validation has just answered 500: an update raised.
ValidationFailed ==
    /\ response.op = "validate_and_fix_continue_step_ids"
    /\ response.status = 500

\* C19: when the store update of one subjourney fails during the project
\* validation, the sweep is not aborted: the row whose update failed is left
\* as it was, and every other anchored subjourney holds, after the run, the
\* continuation the current order gives (earlier updates are kept and the
\* remaining subjourneys are still repaired).
C19_PartialFailure ==
    [][ValidationFailed' =>
        \A n \in AnchoredSubjourneys :
            IF journeys[n].id \in response'.failing
            THEN journeys'[n] = journeys[n]
            ELSE StrOrNone(journeys'[n].continue_step_id)
                     = StrOrNone(CurrentContinuation(journeys[n]))]_vars

\* The part of C19 the code keeps: after a failed run, no row holds a value
\* other than its old one or the continuation the current order gives.
C19_NoRollback ==
    [][ValidationFailed' =>
        \A n \in AnchoredSubjourneys :
            \/ journeys'[n] = journeys[n]
            \/ StrOrNone(journeys'[n].continue_step_id)
                   = StrOrNone(CurrentContinuation(journeys[n]))]_vars

\* C20: in every store state the journey handlers reach, each journey row has
\* is_subjourney = true exactly when its parent_step_id is not null.
C20_SubjourneyIffParent ==
    \A n \in 1..Len(journeys) :
        journeys[n].is_subjourney <=> journeys[n].parent_step_id # NULL

\* Two different subjourneys anchored at the same step of the journey.
SharedAnchor(n, m, journey_id) ==
    /\ n # m
    /\ AnchoredIn(journeys[n], journey_id)
    /\ AnchoredIn(journeys[m], journey_id)
    /\ journeys[n].parent_step_id = journeys[m].parent_step_id

\* C22: after a sweep of a journey (the one a structure read runs, and the
\* one the project validation runs for a top-level journey), any two
\* subjourneys anchored at the same step of it store the same
\* continue_step_id, the one the current order gives for that anchor.
C22_SharedAnchor ==
    \A n \in 1..Len(journeys), m \in 1..Len(journeys), k \in 1..Len(journeys) :
        /\ SharedAnchor(n, m, journeys[k].id)
        /\ \/ StructureRead /\ response.journey_id = journeys[k].id
           \/ ProjectValidated /\ ~journeys[k].is_subjourney
        => /\ journeys[n].continue_step_id = CurrentContinuation(journeys[n])
           /\ journeys[m].continue_step_id = journeys[n].continue_step_id

C22_Witness ==
    /\ StructureRead
    /\ \E n \in 1..Len(journeys), m \in 1..Len(journeys) :
          /\ SharedAnchor(n, m, response.journey_id)
          /\ journeys[n].continue_step_id # NULL
          /\ journeys[m].continue_step_id = journeys[n].continue_step_id
    /\ Len(response.subjourneys) = 2

\* create_step or delete_phase has just returned success.
StructureChanged ==
    /\ response.op \in {"create_step", "delete_phase"}
    /\ response.status = 200

\* C23: after create_step has added a step to a phase of journey J, or
\* delete_phase has removed a phase of J, and the handler has returned
\* success, every subjourney anchored at a step of J stores the continuation
\* that J's resulting order gives it.
C23_CreateDeleteRepair ==
    StructureChanged =>
        \A n \in 1..Len(journeys) :
            AnchoredIn(journeys[n], response.journey_id) =>
                journeys[n].continue_step_id = CurrentContinuation(journeys[n])

\* The stored pointer of the subjourney differs from the derived one and
\* names a step of the journey the subjourney is anchored in.
Distrusted(sj, journey_id) ==
    /\ AnchoredIn(sj, journey_id)
    /\ sj.continue_step_id # CurrentContinuation(sj)
    /\ \E i \in StepsOfJourney(journey_id) : steps[i].id = sj.continue_step_id

\* The step is a sweep of the journey: a structure read of it, or the project
\* validation when the journey is top-level.
SweptNext(k) ==
    \/ /\ response'.op = "get_journey_structure"
       /\ response'.status = 200
       /\ response'.include_subjourneys
       /\ response'.journey_id = journeys[k].id
    \/ /\ response'.op = "validate_and_fix_continue_step_ids"
       /\ ~journeys[k].is_subjourney

PositionsOf(L, id) == {k \in 1..Len(L) : L[k] = id}

\* The list names every id of the set exactly once.
PermutationOf(L, S) == Len(L) = Cardinality(S) /\ Range(L) = S

\* The rows named by the list carry their 1-based position in it, and the
\* other rows are as they were.
Renumbered(before, after, L, belongs(_)) ==
    /\ Len(after) = Len(before)
    /\ \A i \in 1..Len(before) :
          IF belongs(before[i]) /\ before[i].id \in Range(L)
          THEN /\ after[i] = [before[i] EXCEPT !.sequence_order = after[i].sequence_order]
               /\ \A k \in PositionsOf(L, before[i].id) : after[i].sequence_order = k
          ELSE after[i] = before[i]

\* The ids of the rows in their canonical order are the list.
InListOrder(rows, L) ==
    /\ Len(rows) = Len(L)
    /\ \A k \in 1..Len(L) : rows[k].id = L[k] /\ rows[k].sequence_order = k

StepReorderEffect ==
    LET L == response'.step_ids
        phase_id == response'.phase_id
    IN  /\ Renumbered(steps, steps', L, LAMBDA x : x.phase_id = phase_id)
        /\ UNCHANGED <<journeys, phases>>
        /\ PermutationOf(L, StepsOfPhase(phase_id)) =>
              InListOrder(sorted(phase_steps(steps', phase_id)), L)

PhaseReorderEffect ==
    LET L == response'.phase_ids
        journey_id == response'.journey_id
    IN  /\ Renumbered(phases, phases', L, LAMBDA x : x.journey_id = journey_id)
        /\ UNCHANGED <<journeys, steps>>
        /\ PermutationOf(L, PhasesOfJourney(journey_id)) =>
              InListOrder(select_phases(phases', journey_id), L)

\* C25: a successful reorder_steps (reorder_phases) with list L gives the
\* element at 0-based index k of L the sequence_order k+1 and changes no
\* other sequence_order, in the phase (journey) or outside it; when L is a
\* permutation of the steps of the phase (phases of the journey) their
\* sequence_orders are 1..n and their canonical order is L.
C25_ReorderEffect ==
    [][/\ (response'.op = "reorder_steps" /\ response'.status = 200) => StepReorderEffect
       /\ (response'.op = "reorder_phases" /\ response'.status = 200) => PhaseReorderEffect]_vars

\* The rows of the phase in canonical order, before and after the step.
PhaseBefore(phase_id) == sorted(phase_steps(steps, phase_id))

PhaseAfter(phase_id) == sorted(phase_steps(steps', phase_id))

\* The ids of the rows, in their order.
IdList(rows) == [k \in 1..Len(rows) |-> rows[k].id]

Without(rows, step_id) == SelectSeq(rows, LAMBDA x : x.id # step_id)

\* The rows have sequence_order 1..n, in this order.
Contiguous(rows) == \A k \in 1..Len(rows) : rows[k].sequence_order = k

\* The phase of the step before the step is taken.
PhaseOfStep(step_id) ==
    steps[CHOOSE i \in 1..Len(steps) : steps[i].id = step_id].phase_id

DeleteStepEffect ==
    LET step_id == response'.step_id
        phase_id == PhaseOfStep(step_id)
    IN  /\ IdList(PhaseAfter(phase_id)) = IdList(Without(PhaseBefore(phase_id), step_id))
        /\ Contiguous(PhaseAfter(phase_id))

MoveStepEffect ==
    LET step_id == response'.step_id
        source == response'.source_phase_id
        target == response'.phase_id
        after == PhaseAfter(target)
    IN  /\ after # <<>>
        /\ after[Len(after)].id = step_id
        /\ \A k \in 1..(Len(after) - 1) :
              after[k].sequence_order < after[Len(after)].sequence_order
        /\ Without(after, step_id) = PhaseBefore(target)
        /\ IdList(PhaseAfter(source)) = IdList(Without(PhaseBefore(source), step_id))
        /\ Contiguous(PhaseAfter(source))

\* C26: after delete_step the remaining steps of the step's phase have
\* sequence_order 1..n in their previous relative order; after
\* move_step_to_phase to a different phase the moved step has the largest
\* sequence_order of the target phase, the other steps of the target phase
\* are as they were, and the remaining steps of the source phase have
\* sequence_order 1..n in their previous relative order.
C26_OrderNormalized ==
    [][/\ (response'.op = "delete_step" /\ response'.status = 200) => DeleteStepEffect
       /\ (/\ response'.op = "move_step_to_phase"
           /\ response'.status = 200
           /\ response'.source_phase_id # response'.phase_id) => MoveStepEffect]_vars

\* S1 has been moved from P1 to P2: it is second there, behind S3, and S2 is
\* now the first step of P1.
C26_Witness ==
    /\ MoveSucceeded
    /\ response.step_id = 1
    /\ response.source_phase_id = 1
    /\ response.phase_id = 2
    /\ steps = <<StepRow(1, 2, 2), StepRow(2, 1, 1), StepRow(3, 2, 1)>>

\* The journey has just been swept: by a structure read of it, or by the
\* project validation when it is top-level.
Swept(k) ==
    \/ StructureRead /\ response.journey_id = journeys[k].id
    \/ ProjectValidated /\ ~journeys[k].is_subjourney

\* No step of its journey comes after the step.
LastOfJourney(i) ==
    \A k \in StepsOfJourney(JourneyOf(i)) \ {i} : StoreBefore(k, i)

\* C27: right after a sweep of journey J, the continue_step_id of every
\* subjourney anchored at a step of J is null or the id of a step of J, and
\* it is the anchor itself only when J is a subjourney and the anchor is J's
\* last step.
C27_PointerValid ==
    \A n \in 1..Len(journeys), k \in 1..Len(journeys) :
        AnchoredIn(journeys[n], journeys[k].id) /\ Swept(k) =>
            /\ \/ journeys[n].continue_step_id = NULL
               \/ \E i \in StepsOfJourney(journeys[k].id) :
                     steps[i].id = journeys[n].continue_step_id
            /\ journeys[n].continue_step_id = journeys[n].parent_step_id =>
                  /\ journeys[k].is_subjourney
                  /\ LastOfJourney(AnchorOf(journeys[n]))

\* A structure read of a subjourney has left a loop-back pointer in the
\* subjourney anchored at its last step.
C27_Witness ==
    /\ StructureRead
    /\ \E n \in 1..Len(journeys) :
          /\ AnchoredIn(journeys[n], response.journey_id)
          /\ journeys[n].continue_step_id = journeys[n].parent_step_id
          /\ LastOfJourney(AnchorOf(journeys[n]))

\* The row differs from the old one in its continue_step_id at most.
SameButPointer(old, new) == new = [old EXCEPT !.continue_step_id = new.continue_step_id]

\* The subjourney is one a sweep run by this step may write: anchored in the
\* journey read, or in a top-level journey when the project is validated.
InSweepNext(sj) ==
    \/ /\ response'.op = "get_journey_structure"
       /\ AnchoredIn(sj, response'.journey_id)
    \/ /\ response'.op = "validate_and_fix_continue_step_ids"
       /\ \E k \in 1..Len(journeys) :
             ~journeys[k].is_subjourney /\ AnchoredIn(sj, journeys[k].id)

\* C28: a sweep of journey J (run by a structure read of J or by the project
\* validation) changes no phase and no step, changes no journey's id,
\* parent_step_id or is_subjourney, and changes the continue_step_id of
\* subjourneys anchored at a step of J only.
C28_RepairFrame ==
    [][response'.op \in {"get_journey_structure", "validate_and_fix_continue_step_ids"} =>
        /\ UNCHANGED <<phases, steps>>
        /\ Len(journeys') = Len(journeys)
        /\ \A n \in 1..Len(journeys) :
              /\ SameButPointer(journeys[n], journeys'[n])
              /\ ~InSweepNext(journeys[n]) => journeys'[n] = journeys[n]]_vars

\* The structure read of subjourney J2 has written the pointer of J3, which
\* is anchored in it, and J2, anchored in J1, is as it was loaded.
C28_Witness ==
    /\ StructureRead
    /\ response.journey_id = 2
    /\ Len(journeys) = 3
    /\ journeys[2] = JourneyRow(2, TRUE, 1, NULL)
    /\ AnchoredIn(journeys[3], 2)
    /\ journeys[3].continue_step_id # NULL

-----------------------------------------------------------------------------
(* Requests served at once *)

\* The journeys table as the loader left it: no continue_step_id stored.
AsLoaded == [n \in 1..Len(journeys) |-> [journeys[n] EXCEPT !.continue_step_id = NULL]]

\* The request has returned from a sweep of the journey.
SweptAndReturned(r, journey_id) ==
    /\ r.at = "returned"
    /\ r.status = 200
    /\ r.sweep.journey_id = journey_id

\* The sweep loaded a subjourney whose stored continue_step_id was not the
\* expected one.
LoadedStale(r) ==
    \E k \in 1..Len(r.sweep.subjourneys) :
        r.sweep.subjourneys[k].continue_step_id # CurrentContinuation(r.sweep.subjourneys[k])

\* C29: sweeps and structure reads of one journey interleaved store call by
\* store call, with nothing changing the structure, leave the store as a
\* single sweep of the loaded store does: once one of them has returned, every
\* subjourney anchored in the journey stores the expected continue_step_id,
\* whatever the other has done or still does.
C29_SweepsConverge ==
    (\E caller \in Callers : SweptAndReturned(requests[caller], 1)) =>
        /\ journeys = _update_continue_step_ids_for_journey(AsLoaded, phases, steps, 1).journeys
        /\ \A n \in 1..Len(journeys) :
              AnchoredIn(journeys[n], 1) =>
                  journeys[n].continue_step_id = CurrentContinuation(journeys[n])

\* A sweep and a structure read of the journey have both returned, and each
\* had loaded a stale pointer before the other repaired it.
C29_Witness ==
    /\ \A caller \in Callers :
          SweptAndReturned(requests[caller], 1) /\ LoadedStale(requests[caller])
    /\ requests[1].op # requests[2].op

\* Both requests were structural mutations and have returned.
BothMutated ==
    \A caller \in Callers :
        /\ requests[caller].op \in {"move_step_to_phase", "delete_step", "reorder_steps"}
        /\ requests[caller].at = "returned"

\* The subjourneys anchored in the journey whose stored pointer is stale.
StaleIn(jt, journey_id) ==
    {n \in 1..Len(jt) :
        /\ AnchoredIn(jt[n], journey_id)
        /\ jt[n].continue_step_id # CurrentContinuation(jt[n])}

\* C21: after two structural mutations of one journey served at once, store
\* call by store call, have both returned, a repair sweep of the journey that
\* runs alone leaves no subjourney anchored in the journey with a stale
\* continue_step_id, and neither does a structure read of the journey that
\* runs alone.
C21_EventualRepair ==
    BothMutated =>
        /\ StaleIn(_update_continue_step_ids_for_journey(journeys, phases, steps, 1).journeys,
                   1) = {}
        /\ StructureRead /\ response.journey_id = 1 => StaleIn(journeys, 1) = {}

\* A move and a delete served at once have both returned after their own
\* sweeps and left a stale pointer, which a sweep running alone corrects.
C21_Witness ==
    /\ BothMutated
    /\ \A caller \in Callers :
          /\ requests[caller].status = 200
          /\ requests[caller].op # "reorder_steps"
          /\ requests[caller].sweep.journey_id = 1
    /\ StaleIn(journeys, 1) # {}
    /\ StaleIn(_update_continue_step_ids_for_journey(journeys, phases, steps, 1).journeys,
               1) = {}

\* The step is a write of a sweep or of a structure read: the journeys table
\* changes and the structure stays.
SweepWrote ==
    /\ journeys' # journeys
    /\ UNCHANGED <<phases, steps>>

\* C30: a write of a sweep or of a structure read never replaces a stored
\* continue_step_id that is the expected one for the structure in the store by
\* one that is not, whatever other requests have committed since the sweep
\* loaded its phases and steps.
C30_NoRegression ==
    [][SweepWrote =>
          \A n \in 1..Len(journeys) :
              AnchoredIn(journeys[n], 1) /\ n \notin StaleIn(journeys, 1) =>
                  journeys'[n].continue_step_id = journeys[n].continue_step_id]_vars

====
